---- MODULE Spec2Model ----
(***************************************************************************)
(* State-machine model of b2_backup: the manifest database (SQLite tables  *)
(* with their keys, AUTOINCREMENT counters and foreign keys), the session  *)
(* driven by Manifest::update (backup walk by parallel workers, archive    *)
(* rollover, New-File promotion, garbage collection, patchset upload,      *)
(* commit, remote removal), small-archive compaction, Manifest::restore,   *)
(* and the remote blob store.                                              *)
(***************************************************************************)
EXTENDS Integers, Sequences, FiniteSets, TLC

(* ------------------------------ bounds -------------------------------- *)

\* number of distinct paths of the walked tree
NumPaths == 2
\* number of distinct block contents the chunker can emit
NumBlocks == 3
\* largest number of chunks of one file
MaxFileBlocks == 1
\* size of the worker pool (config.num_threads)
NumWorkers == 2
\* number of backup sessions started in one behaviour
MaxSessions == 2

(* ------------------------- program constants -------------------------- *)

\* sodiumoxide sha256 digest width, written in front of each archive entry
DIGESTBYTES == 32
\* width of the big-endian u32 block length of an archive entry
LEN_BYTES == 4
\* pack.rs: nonce and tag appended to every packed blob
IV_LEN == 12
TAG_LEN == 16

Paths == 1..NumPaths
\* st_mode of a walked file: 0o644 and 0o755
Modes == {420, 493}
Blocks == 1..NumBlocks
Workers == 1..NumWorkers

\* SQL NULL and a non-null column value
NULL == <<>>
Some(x) == <<x>>

\* byte length of a chunk: even-numbered contents are large chunks
BlockLen(block) == IF block % 2 = 0 THEN 40 ELSE 1

\* config.min_archive_len, scaled: one large chunk or two small ones
\* reach it
min_archive_len == 2 * (DIGESTBYTES + LEN_BYTES) + 2

\* sha256 of a chunk: an injective tag of the content
hash(block) == <<"sha256", block>>

Max(S) == CHOOSE x \in S : \A y \in S : y <= x
Min(S) == CHOOSE x \in S : \A y \in S : x <= y

RECURSIVE SumLen(_)
SumLen(s) == IF s = <<>> THEN 0 ELSE BlockLen(Head(s)) + SumLen(Tail(s))

\* the ascending enumeration of a finite set of integers
RECURSIVE SortedSeq(_)
SortedSeq(S) == IF S = {} THEN <<>> ELSE <<Min(S)>> \o SortedSeq(S \ {Min(S)})

Range(s) == {s[i] : i \in DOMAIN s}

\* file contents as the chunker cuts them: sequences of chunks
RECURSIVE SeqsUpTo(_)
SeqsUpTo(n) ==
    IF n = 0 THEN {<<>>}
    ELSE LET shorter == SeqsUpTo(n - 1)
         IN  shorter \cup {Append(s, b) : s \in {t \in shorter : Len(t) = n - 1}, b \in Blocks}
Contents == SeqsUpTo(MaxFileBlocks)

\* a file tree: the regular files under the include roots
Trees == UNION {[D -> Contents] : D \in SUBSET Paths}

(* --------------------------- the database ----------------------------- *)

\* Manifest::open: the tables, empty; seq_* are the sqlite_sequence rows of
\* the two AUTOINCREMENT tables
EmptyDb ==
    [ patchsets |-> {}, archives |-> {}, files |-> {}, blocks |-> {},
      mappings |-> {}, seq_patchsets |-> 0, seq_archives |-> 0,
      visited_files |-> {}, new_files |-> {}, new_mappings |-> {} ]

Ids(table) == {r.id : r \in table}

\* rowid given to a row inserted into an INTEGER PRIMARY KEY table
NextRowid(table) == IF table = {} THEN 1 ELSE Max(Ids(table)) + 1

\* rowid given by an AUTOINCREMENT table: above every id ever used
NextAuto(seq, table) == Max({seq} \cup Ids(table)) + 1

Ok(st) == [ok |-> TRUE, st |-> st]
Err(st) == [ok |-> FALSE, st |-> st]

(* ------------------------- database statements ----------------------- *)

\* schema: blocks.archive_id REFERENCES archives ON DELETE CASCADE, and
\* mappings.block_id REFERENCES blocks with no action: deleting block rows
\* that a mapping still references fails the statement
ReferencedBlocks(st, block_ids) ==
    \E m \in st.mappings : m.block_id \in block_ids

\* variant: the foreign key of mappings.file_id without ON DELETE CASCADE
CascadeMappingsOff(mappings, file_ids) == mappings

\* schema: mappings.file_id REFERENCES files ON DELETE CASCADE
CascadeMappings(mappings, file_ids) ==
    {m \in mappings : m.file_id \notin file_ids}

\* schema: new_mappings.new_file_id REFERENCES new_files ON DELETE CASCADE
CascadeNewMappings(new_mappings, new_file_ids) ==
    {m \in new_mappings : m.new_file_id \notin new_file_ids}

insert_archive_id(st) == NextAuto(st.seq_archives, st.archives)

insert_archive(st) ==
    LET id == insert_archive_id(st)
    IN  [st EXCEPT !.archives = @ \cup {[id |-> id, length |-> NULL,
                                        b2_file_id |-> NULL, b2_length |-> NULL]},
                   !.seq_archives = id]

update_archive(st, archive_id, length, b2_file_id, b2_length) ==
    [st EXCEPT !.archives =
        {IF a.id = archive_id
           THEN [a EXCEPT !.length = Some(length), !.b2_file_id = Some(b2_file_id),
                          !.b2_length = Some(b2_length)]
           ELSE a : a \in @}]

\* variant: the rows go although a mapping still references a block
delete_archive_unchecked(st, archive_id) ==
    Ok([st EXCEPT !.archives = {a \in @ : a.id # archive_id},
                  !.blocks = {b \in @ : b.archive_id # archive_id}])

delete_archive(st, archive_id) ==
    LET gone == {b.id : b \in {x \in st.blocks : x.archive_id = archive_id}}
    IN  IF ReferencedBlocks(st, gone)
          THEN Err(st)
          ELSE Ok([st EXCEPT !.archives = {a \in @ : a.id # archive_id},
                             !.blocks = {b \in @ : b.archive_id # archive_id}])

select_file(st, path) ==
    IF \E f \in st.files : f.path = path
      THEN Some((CHOOSE f \in st.files : f.path = path).id)
      ELSE NULL

NewFile(st, new_file_id) == CHOOSE nf \in st.new_files : nf.id = new_file_id

insert_file(st, new_file_id) ==
    LET nf == NewFile(st, new_file_id)
    IN  [st EXCEPT !.files = @ \cup {[id |-> NextRowid(st.files), path |-> nf.path,
                                      size |-> nf.size, mode |-> nf.mode,
                                      symlink |-> nf.symlink]}]

\* variant: only the size is taken from the NewFile row
update_file_size(st, file_id, new_file_id) ==
    LET nf == NewFile(st, new_file_id)
    IN  [st EXCEPT !.files = {IF f.id = file_id THEN [f EXCEPT !.size = nf.size] ELSE f
                              : f \in @}]

update_file(st, file_id, new_file_id) ==
    LET nf == NewFile(st, new_file_id)
    IN  [st EXCEPT !.files = {IF f.id = file_id
                                THEN [f EXCEPT !.size = nf.size, !.mode = nf.mode,
                                               !.symlink = nf.symlink]
                                ELSE f : f \in @}]

select_block(st, digest) ==
    IF \E b \in st.blocks : b.digest = digest
      THEN Some((CHOOSE b \in st.blocks : b.digest = digest).id)
      ELSE NULL

insert_block(st, digest, archive_id) ==
    IF \/ \E b \in st.blocks : b.digest = digest
       \/ archive_id \notin Ids(st.archives)
      THEN Err(st)
      ELSE Ok([st EXCEPT !.blocks = @ \cup {[id |-> NextRowid(st.blocks),
                                            digest |-> digest,
                                            archive_id |-> archive_id]}])

update_block(st, block_id, archive_id) ==
    [st EXCEPT !.blocks = {IF b.id = block_id THEN [b EXCEPT !.archive_id = archive_id]
                           ELSE b : b \in @}]

\* INSERT INTO mappings ... SELECT ... FROM new_mappings: fails on a block_id
\* that is no row of blocks, or on an occupied (file_id, offset)
insert_mappings(st, file_id, new_file_id) ==
    LET rows == {[file_id |-> file_id, offset |-> nm.offset, block_id |-> nm.block_id]
                 : nm \in {x \in st.new_mappings : x.new_file_id = new_file_id}}
    IN  IF \/ \E r \in rows : r.block_id \notin Ids(st.blocks)
           \/ \E r \in rows, m \in st.mappings :
                 m.file_id = r.file_id /\ m.offset = r.offset
          THEN Err(st)
          ELSE Ok([st EXCEPT !.mappings = @ \cup rows])

delete_mappings(st, file_id) ==
    [st EXCEPT !.mappings = {m \in @ : m.file_id # file_id}]

insert_visited_file(st, file_id) ==
    [st EXCEPT !.visited_files = @ \cup {file_id}]

delete_visited_files(st) == [st EXCEPT !.visited_files = {}]

\* new_files.path is UNIQUE
insert_new_file(st, path, size, mode, symlink) ==
    IF \E nf \in st.new_files : nf.path = path
      THEN Err(st)
      ELSE Ok([st EXCEPT !.new_files = @ \cup {[id |-> NextRowid(st.new_files),
                                                path |-> path, size |-> size,
                                                mode |-> mode, symlink |-> symlink,
                                                closed |-> FALSE]}])

update_new_file(st, new_file_id) ==
    [st EXCEPT !.new_files = {IF nf.id = new_file_id THEN [nf EXCEPT !.closed = TRUE]
                              ELSE nf : nf \in @}]

delete_new_file(st, new_file_id) ==
    [st EXCEPT !.new_files = {nf \in @ : nf.id # new_file_id},
               !.new_mappings = CascadeNewMappings(@, {new_file_id})]

\* variant: only the first file that holds a block gets its mapping
insert_new_mapping_first(st, new_file_id, offset, block_id) ==
    IF \E nm \in st.new_mappings : nm.block_id = block_id
      THEN Ok(st)
      ELSE Ok([st EXCEPT !.new_mappings = @ \cup {[new_file_id |-> new_file_id,
                                                    offset |-> offset,
                                                    block_id |-> block_id]}])

\* new_mappings has PRIMARY KEY (new_file_id, offset) and, being a child of
\* new_files, needs the parent row
insert_new_mapping(st, new_file_id, offset, block_id) ==
    IF \/ \E nm \in st.new_mappings : nm.new_file_id = new_file_id /\ nm.offset = offset
       \/ new_file_id \notin Ids(st.new_files)
      THEN Err(st)
      ELSE Ok([st EXCEPT !.new_mappings = @ \cup {[new_file_id |-> new_file_id,
                                                    offset |-> offset,
                                                    block_id |-> block_id]}])

(* ------------------------- New-File promotion ------------------------- *)

\* variant: the SELECT without its NOT EXISTS clause
select_closed_only(st) == {nf \in st.new_files : nf.closed}

\* the SELECT of collect_closed_new_files
select_closed_new_files(st) ==
    {nf \in st.new_files :
        /\ nf.closed
        /\ ~\E nm \in st.new_mappings, b \in st.blocks, a \in st.archives :
              /\ nf.id = nm.new_file_id
              /\ nm.block_id = b.id
              /\ b.archive_id = a.id
              /\ a.b2_file_id = NULL}

\* the loop body of collect_closed_new_files for one selected row
promote_new_file(st, new_file_id) ==
    LET found == select_file(st, NewFile(st, new_file_id).path)
        file_id == IF found # NULL THEN found[1] ELSE NextRowid(st.files)
        s1 == IF found # NULL
                THEN delete_mappings(update_file(st, file_id, new_file_id), file_id)
                ELSE insert_file(st, new_file_id)
        r2 == insert_mappings(s1, file_id, new_file_id)
    IN  IF r2.ok
          THEN Ok(delete_new_file(insert_visited_file(r2.st, file_id), new_file_id))
          ELSE Err(st)

RECURSIVE promote_new_files(_, _)
promote_new_files(st, ids) ==
    IF ids = <<>> THEN Ok(st)
    ELSE LET r == promote_new_file(st, Head(ids))
         IN  IF r.ok THEN promote_new_files(r.st, Tail(ids)) ELSE Err(st)

\* rows are visited in rowid order
collect_closed_new_files(st) ==
    promote_new_files(st, SortedSeq(Ids(select_closed_new_files(st))))

(* ------------------------- garbage collection ------------------------- *)

delete_unvisited_files(st) ==
    LET gone == {f.id : f \in {x \in st.files : x.id \notin st.visited_files}}
    IN  [st EXCEPT !.files = {f \in @ : f.id \notin gone},
                   !.mappings = CascadeMappings(@, gone)]

\* variant: blocks without mappings are kept
keep_unused_blocks(st) == st


delete_unused_blocks(st) ==
    [st EXCEPT !.blocks = {b \in @ : b.id \in {m.block_id : m \in st.mappings}}]

\* variant: no archive is ever found unused
select_no_archives(st) == {}


select_unused_archives(st) ==
    {a \in st.archives : a.id \notin {b.archive_id : b \in st.blocks}}

\* variant: the unvisited files are deleted whatever the flag says
delete_unused_archives_unvisited(st, keep_unvisited_files) ==
    LET s1 == delete_unvisited_files(st)
        s2 == delete_unused_blocks(s1)
        unused == select_unused_archives(s2)
    IN  IF \E a \in unused : a.b2_file_id = NULL
          THEN [ok |-> FALSE, st |-> st, unused |-> <<>>]
          ELSE [ok |-> TRUE,
                st |-> [s2 EXCEPT !.archives = @ \ unused],
                unused |-> SortedSeq(Ids(unused))]

\* reading b2_file_id as a String fails on a NULL column
delete_unused_archives(st, keep_unvisited_files) ==
    LET s1 == IF ~keep_unvisited_files THEN delete_unvisited_files(st) ELSE st
        s2 == delete_unused_blocks(s1)
        unused == select_unused_archives(s2)
    IN  IF \E a \in unused : a.b2_file_id = NULL
          THEN [ok |-> FALSE, st |-> st, unused |-> <<>>]
          ELSE [ok |-> TRUE,
                st |-> [s2 EXCEPT !.archives = @ \ unused],
                unused |-> SortedSeq(Ids(unused))]

(* ------------------------------ patchsets ----------------------------- *)

\* the primary key of a row of the named table
PrimaryKey(t, r) == IF t = "mappings" THEN <<r.file_id, r.offset>> ELSE r.id

\* the UNIQUE column of a table besides its key (the key where none)
UniqueKey(t, r) ==
    CASE t = "files" -> r.path
      [] t = "blocks" -> r.digest
      [] OTHER -> PrimaryKey(t, r)

\* what a session records of one table: rows that exist only afterwards
\* (INSERT), keys that exist only before (DELETE, the patchset keeps the
\* key alone), rows of a surviving key whose columns changed (UPDATE, the
\* patchset keeps the key and the new values of the changed columns)
TableChanges(t, old, new) ==
    [ ins |-> {r \in new : \A o \in old : PrimaryKey(t, o) # PrimaryKey(t, r)},
      del |-> {PrimaryKey(t, o) :
                  o \in {x \in old : \A r \in new : PrimaryKey(t, r) # PrimaryKey(t, x)}},
      upd |-> {[old |-> q[1], new |-> q[2]] :
                  q \in {x \in old \X new :
                           PrimaryKey(t, x[1]) = PrimaryKey(t, x[2]) /\ x[1] # x[2]}} ]

NoChanges(c) == c.ins = {} /\ c.del = {} /\ c.upd = {}

\* Session::patchset_strm: the session is attached to every table of the
\* main database and is dropped before the patchsets table is written
session_patchset(old, new) ==
    [ archives |-> TableChanges("archives", old.archives, new.archives),
      blocks   |-> TableChanges("blocks", old.blocks, new.blocks),
      files    |-> TableChanges("files", old.files, new.files),
      mappings |-> TableChanges("mappings", old.mappings, new.mappings) ]

\* variant: a change-set is never taken for empty
patchset_is_empty_never(p) == FALSE

patchset_is_empty(p) ==
    /\ NoChanges(p.archives) /\ NoChanges(p.blocks)
    /\ NoChanges(p.files) /\ NoChanges(p.mappings)

PatchsetSize(p) ==
    LET n(c) == Cardinality(c.ins) + Cardinality(c.del) + Cardinality(c.upd)
    IN  n(p.archives) + n(p.blocks) + n(p.files) + n(p.mappings)

\* the changed columns of an UPDATE written into the row that has its key
ApplyUpdate(row, u) ==
    [f \in DOMAIN row |-> IF u.old[f] # u.new[f] THEN u.new[f] ELSE row[f]]

\* keys of rows that leave the table while the changes are applied: the
\* DELETEs that find their row, and the rows an INSERT replaces
RemovedKeys(t, table, c) ==
    {PrimaryKey(t, r) : r \in {x \in table :
        \/ PrimaryKey(t, x) \in c.del
        \/ \E i \in c.ins : PrimaryKey(t, i) = PrimaryKey(t, x)}}

\* apply of one table's changes with the conflict handler of
\* apply_patchset: DELETE or UPDATE of a missing key is NOTFOUND (OMIT);
\* INSERT over an existing key is CONFLICT (REPLACE); INSERT that breaks a
\* UNIQUE column is CONSTRAINT (OMIT)
ApplyTable(t, table, c) ==
    LET afterDel == {r \in table : PrimaryKey(t, r) \notin RemovedKeys(t, table, c)}
        afterUpd == {IF \E u \in c.upd : PrimaryKey(t, u.new) = PrimaryKey(t, r)
                       THEN ApplyUpdate(r, CHOOSE u \in c.upd :
                                              PrimaryKey(t, u.new) = PrimaryKey(t, r))
                       ELSE r : r \in afterDel}
    IN  afterUpd \cup {i \in c.ins :
                          \A r \in afterUpd : UniqueKey(t, r) # UniqueKey(t, i)}

\* Connection::apply_strm: tables in the order the session first wrote them
\* (archives, blocks, files, mappings), foreign keys deferred but their
\* ON DELETE CASCADE actions taken, a remaining violation answered OMIT
apply_changes(st, p) ==
    LET archives == ApplyTable("archives", st.archives, p.archives)
        blocks0  == {b \in st.blocks :
                       b.archive_id \notin RemovedKeys("archives", st.archives, p.archives)}
        blocks   == ApplyTable("blocks", blocks0, p.blocks)
        files    == ApplyTable("files", st.files, p.files)
        maps0    == CascadeMappings(st.mappings,
                                    RemovedKeys("files", st.files, p.files))
        mappings == ApplyTable("mappings", maps0, p.mappings)
    IN  [st EXCEPT !.archives = archives, !.blocks = blocks, !.files = files,
                   !.mappings = mappings,
                   !.seq_archives = Max({@} \cup Ids(archives))]

(* ------------------------ archives and the remote --------------------- *)

\* Archive::new: the in-flight archive, an empty scratch file
NewArchive(id) == [id |-> id, blocks |-> <<>>]
NoArchive == NewArchive(0)

\* Archive::store_block: digest, big-endian length and bytes are appended
archive_store_block(archive, digest, block) ==
    [archive EXCEPT !.blocks = Append(@, [digest |-> digest, block |-> block])]

RECURSIVE EntriesLen(_)
EntriesLen(entries) ==
    IF entries = <<>> THEN 0
    ELSE DIGESTBYTES + LEN_BYTES + BlockLen(Head(entries).block)
           + EntriesLen(Tail(entries))

\* Archive::len: the position in the scratch file
archive_len(archive) == EntriesLen(archive.blocks)

\* pack and unpack: the plaintext sealed in an envelope that carries nonce
\* and tag; compression is taken as length-preserving
pack(plain, plain_len) == [sealed |-> plain, length |-> plain_len + IV_LEN + TAG_LEN]
unpack(blob) == blob.sealed

\* the file id B2 returns for an uploaded blob
FileId(prefix, id) == <<prefix, id>>

NoRemote == [archives |-> {}, manifests |-> {}]

\* Client::upload under the names archive_<id> and manifest_<id>: the blob
\* of that name is created or replaced
upload_archive(rem, archive) ==
    [rem EXCEPT !.archives = {b \in @ : b.id # archive.id}
        \cup {[id |-> archive.id, blob |-> pack(archive.blocks, archive_len(archive))]}]

upload_manifest(rem, patchset_id, patchset) ==
    [rem EXCEPT !.manifests = {b \in @ : b.id # patchset_id}
        \cup {[id |-> patchset_id, blob |-> pack(patchset, PatchsetSize(patchset))]}]

\* variant: the remove is acknowledged and the blob stays
remove_archive_skipped(rem, archive_id) == rem

\* Client::remove of archive_<id>
remove_archive(rem, archive_id) ==
    [rem EXCEPT !.archives = {b \in @ : b.id # archive_id}]

RemoteArchive(rem, id) == CHOOSE b \in rem.archives : b.id = id
RemoteManifest(rem, id) == CHOOSE b \in rem.manifests : b.id = id

(* --------------------------- upload_patchset -------------------------- *)

\* variant: the lowest id that no row of the table has
insert_patchset_id_free(st) ==
    Min((1..(Cardinality(st.patchsets) + 1)) \ Ids(st.patchsets))

insert_patchset_id(st) == NextAuto(st.seq_patchsets, st.patchsets)

\* INSERT INTO patchsets DEFAULT VALUES: the blob columns are NULL
insert_patchset(st) ==
    LET id == insert_patchset_id(st)
    IN  [st EXCEPT !.patchsets = @ \cup {[id |-> id, b2_file_id |-> NULL,
                                          b2_length |-> NULL]},
                   !.seq_patchsets = id]

\* variant: the row keeps its NULL columns after the upload
update_patchset_skipped(st, patchset_id, b2_file_id, b2_length) == st

update_patchset(st, patchset_id, b2_file_id, b2_length) ==
    [st EXCEPT !.patchsets =
        {IF p.id = patchset_id
           THEN [p EXCEPT !.b2_file_id = Some(b2_file_id), !.b2_length = Some(b2_length)]
           ELSE p : p \in @}]

\* insert_patchset then update_patchset around the upload
upload_patchset(st, patchset) ==
    LET id == insert_patchset_id(st)
    IN  update_patchset(insert_patchset(st), id, FileId("manifest", id),
                        pack(patchset, PatchsetSize(patchset)).length)

(* ------------------------- patchset compaction ------------------------ *)

\* Config::max_manifest_len as the model's configuration sets it
max_manifest_len == 70

RECURSIVE SumLengths(_)
SumLengths(rows) ==
    IF rows = {} THEN 0
    ELSE LET r == CHOOSE x \in rows : TRUE
         IN  r.b2_length[1] + SumLengths(rows \ {r})

\* variant: every patchset whose own blob is below the limit
select_patchsets_below(st, limit) ==
    LET small == {p.id : p \in {q \in st.patchsets : q.b2_length[1] < limit}}
        up == SortedSeq(small)
    IN  [i \in DOMAIN up |-> up[Len(up) + 1 - i]]

\* select_small_patchsets: the ids whose blob lengths, summed from that id
\* to the newest, stay below the limit; ORDER BY id DESC
select_small_patchsets(st, limit) ==
    LET small == {p.id : p \in {q \in st.patchsets :
                     SumLengths({l \in st.patchsets : l.id >= q.id}) < limit}}
        up == SortedSeq(small)
    IN  [i \in DOMAIN up |-> up[Len(up) + 1 - i]]

delete_patchset(st, patchset_id) ==
    [st EXCEPT !.patchsets = {p \in @ : p.id # patchset_id}]

RECURSIVE delete_patchsets(_, _)
delete_patchsets(st, ids) ==
    IF ids = <<>> THEN st
    ELSE delete_patchsets(delete_patchset(st, Head(ids)), Tail(ids))

\* a value of the column's type that differs from v
Unlike(t, f, v) ==
    IF t # "archives" THEN v + 1
    ELSE IF v # NULL THEN NULL
    ELSE IF f = "b2_file_id" THEN Some(FileId("archive", 0))
    ELSE Some(0)

\* the UPDATE a changegroup makes of a DELETE followed by an INSERT of the
\* same key: a patchset DELETE holds the key alone, so the UPDATE carries
\* every column of the inserted row
FullUpdate(t, row) ==
    [old |-> [f \in DOMAIN row |->
                 IF f \in {"id", "file_id", "offset"} THEN row[f]
                 ELSE Unlike(t, f, row[f])],
     new |-> row]

\* UPDATE followed by UPDATE: the columns either changed, the later value
\* where both did
MergeUpdate(t, u, v) ==
    LET new == ApplyUpdate(u.new, v)
    IN  [old |-> [f \in DOMAIN new |->
                     IF u.old[f] # u.new[f] \/ v.old[f] # v.new[f]
                     THEN Unlike(t, f, new[f]) ELSE new[f]],
         new |-> new]

\* sqlite3changegroup_add of one table's changes b to the changes a already
\* in the group, by primary key
CombineTable(t, a, b) ==
    LET insKeys(c) == {PrimaryKey(t, r) : r \in c.ins}
        updKeys(c) == {PrimaryKey(t, u.new) : u \in c.upd}
        keys(c) == insKeys(c) \cup updKeys(c) \cup c.del
    IN  [ ins |-> {r \in a.ins : PrimaryKey(t, r) \notin b.del \cup updKeys(b)}
                  \cup {ApplyUpdate(q[1], q[2]) :
                          q \in {x \in a.ins \X b.upd :
                                   PrimaryKey(t, x[1]) = PrimaryKey(t, x[2].new)}}
                  \cup {r \in b.ins : PrimaryKey(t, r) \notin keys(a)},
          upd |-> {u \in a.upd : PrimaryKey(t, u.new) \notin b.del \cup updKeys(b)}
                  \cup {MergeUpdate(t, q[1], q[2]) :
                          q \in {x \in a.upd \X b.upd :
                                   PrimaryKey(t, x[1].new) = PrimaryKey(t, x[2].new)}}
                  \cup {FullUpdate(t, r) : r \in {x \in b.ins : PrimaryKey(t, x) \in a.del}}
                  \cup {v \in b.upd : PrimaryKey(t, v.new) \notin keys(a)},
          del |-> {k \in a.del : k \notin insKeys(b)}
                  \cup {k \in b.del : k \notin insKeys(a) \cup a.del} ]

EmptyPatchset ==
    LET none == [ins |-> {}, del |-> {}, upd |-> {}]
    IN  [archives |-> none, blocks |-> none, files |-> none, mappings |-> none]

\* Changegroup::add_stream
add_stream(group, p) ==
    [ archives |-> CombineTable("archives", group.archives, p.archives),
      blocks   |-> CombineTable("blocks", group.blocks, p.blocks),
      files    |-> CombineTable("files", group.files, p.files),
      mappings |-> CombineTable("mappings", group.mappings, p.mappings) ]

\* the loop of collect_small_patchsets over small_patchsets.iter().rev():
\* the manifests are downloaded and added oldest first
RECURSIVE changegroup(_, _, _)
changegroup(group, ids, rem) ==
    IF ids = <<>> THEN group
    ELSE changegroup(add_stream(group, unpack(RemoteManifest(rem, Head(ids)).blob)),
                     Tail(ids), rem)

Reverse(s) == [i \in DOMAIN s |-> s[Len(s) + 1 - i]]

\* Client::remove of manifest_<id>
remove_manifest(rem, patchset_id) ==
    [rem EXCEPT !.manifests = {b \in @ : b.id # patchset_id}]

(* ------------------------------- restore ------------------------------ *)

clear_tables(st) ==
    [st EXCEPT !.mappings = {}, !.blocks = {}, !.files = {}, !.archives = {},
               !.patchsets = {}]


\* variant: the row of an applied patchset gets the next free id
apply_patchset_renumbered(st, patchset_id, patchset, b2_file_id, b2_length) ==
    LET s1 == apply_changes(st, patchset)
        id == NextAuto(s1.seq_patchsets, s1.patchsets)
    IN  [s1 EXCEPT !.patchsets = @ \cup
                      {[id |-> id, b2_file_id |-> Some(b2_file_id),
                        b2_length |-> Some(b2_length)]},
                   !.seq_patchsets = id]

\* apply_patchset: the changes, then the row of the patchsets table
apply_patchset(st, patchset_id, patchset, b2_file_id, b2_length) ==
    LET s1 == apply_changes(st, patchset)
    IN  [s1 EXCEPT !.patchsets = {p \in @ : p.id # patchset_id} \cup
                      {[id |-> patchset_id, b2_file_id |-> Some(b2_file_id),
                        b2_length |-> Some(b2_length)]},
                   !.seq_patchsets = Max({@, patchset_id})]

RECURSIVE apply_patchsets(_, _, _)
apply_patchsets(st, ids, rem) ==
    IF ids = <<>> THEN st
    ELSE LET m == RemoteManifest(rem, Head(ids))
         IN  apply_patchsets(
                 apply_patchset(st, m.id, unpack(m.blob), FileId("manifest", m.id),
                                m.blob.length),
                 Tail(ids), rem)

\* variant: the patchsets are replayed in descending id order
restore_order_descending(rem) ==
    LET up == SortedSeq(Ids(rem.manifests))
    IN  [i \in DOMAIN up |-> up[Len(up) + 1 - i]]

\* the BTreeMap of Manifest::restore: ascending numeric patchset id
restore_order(rem) == SortedSeq(Ids(rem.manifests))

\* Manifest::restore on a database st against the remote rem
restore(st, rem) == apply_patchsets(clear_tables(st), restore_order(rem), rem)

(* ----------------------- small-archive compaction --------------------- *)

BlockCount(st, archive_id) ==
    Cardinality({b \in st.blocks : b.archive_id = archive_id})

\* the rows of select_small_archives: archives that hold a block and whose
\* length column is below min_archive_len (a NULL length compares as NULL)
SmallArchives(st) ==
    {a \in st.archives :
        /\ \E b \in st.blocks : b.archive_id = a.id
        /\ a.length # NULL
        /\ a.length[1] < min_archive_len}

\* ORDER BY COUNT(blocks.id) ASC, archives.length DESC; rows that tie come
\* in any order
select_small_archives(st) ==
    LET small == SmallArchives(st)
        n == Cardinality(small)
        Before(a, b) ==
            \/ BlockCount(st, a.id) < BlockCount(st, b.id)
            \/ BlockCount(st, a.id) = BlockCount(st, b.id) /\ a.length[1] >= b.length[1]
    IN  {[i \in 1..n |-> s[i].id] :
            s \in {t \in [1..n -> small] :
                     /\ \A i, j \in 1..n : i # j => t[i] # t[j]
                     /\ \A i, j \in 1..n : i < j => Before(t[i], t[j])}}

\* the consumer of Archive::read in Update::collect_small_archives
RECURSIVE move_blocks(_, _, _)
move_blocks(st, inflight, entries) ==
    IF entries = <<>> THEN [st |-> st, archive |-> inflight]
    ELSE LET e == Head(entries)
             block_id == select_block(st, e.digest)
         IN  IF block_id # NULL
               THEN move_blocks(update_block(st, block_id[1], inflight.id),
                                archive_store_block(inflight, e.digest, e.block),
                                Tail(entries))
               ELSE move_blocks(st, inflight, Tail(entries))

\* variant: the loop breaks after the first archive, whatever the length
\* of the in-flight archive
collect_archives_once(st, inflight, order, rem) ==
    IF order = <<>> THEN [ok |-> TRUE, st |-> st, archive |-> inflight]
    ELSE IF \A b \in rem.archives : b.id # Head(order)
      THEN [ok |-> FALSE, st |-> st, archive |-> inflight]
      ELSE LET r == move_blocks(st, inflight, unpack(RemoteArchive(rem, Head(order)).blob))
           IN  [ok |-> TRUE, st |-> r.st, archive |-> r.archive]

\* the loop of Update::collect_small_archives over the selected archives
RECURSIVE collect_archives(_, _, _, _)
collect_archives(st, inflight, order, rem) ==
    IF order = <<>> THEN [ok |-> TRUE, st |-> st, archive |-> inflight]
    ELSE IF \A b \in rem.archives : b.id # Head(order)
      THEN [ok |-> FALSE, st |-> st, archive |-> inflight]
      ELSE LET r == move_blocks(st, inflight, unpack(RemoteArchive(rem, Head(order)).blob))
           IN  IF archive_len(r.archive) >= min_archive_len
                 THEN [ok |-> TRUE, st |-> r.st, archive |-> r.archive]
                 ELSE collect_archives(r.st, r.archive, Tail(order), rem)

\* the archives that loop downloads and reads before it breaks or ends
RECURSIVE read_archives(_, _, _, _)
read_archives(st, inflight, order, rem) ==
    IF order = <<>> THEN <<>>
    ELSE IF \A b \in rem.archives : b.id # Head(order)
      THEN <<>>
      ELSE LET r == move_blocks(st, inflight, unpack(RemoteArchive(rem, Head(order)).blob))
           IN  IF archive_len(r.archive) >= min_archive_len
                 THEN <<Head(order)>>
                 ELSE <<Head(order)>> \o read_archives(r.st, r.archive, Tail(order), rem)

(* ------------------------------- state -------------------------------- *)

VARIABLES
    db,               \* the committed database of the connection
    tx,               \* the database as the open transaction sees it
    remote,           \* the blobs of the bucket
    restored,         \* a database rebuilt by Manifest::restore
    pc,               \* where Manifest::update stands
    kind,             \* "backup" or "compact": the producer of the session
    keep,             \* keep_unvisited_files of the session
    tree,             \* the files the walker finds, with their chunks
    todo,             \* paths no worker has reached yet
    workers,          \* per worker: its file and its place in store_block
    archive,          \* Update.archive, the in-flight archive
    archive_id,       \* the id of the session's first archive
    INTERRUPTED,      \* the process-wide flag
    was_interrupted,  \* the flag as Manifest::update read it
    unused_archives,  \* the archives whose blobs are removed after commit
    small_archives,   \* the archives a small-archive compaction selected
    small_patchsets,  \* the patchsets a patchset compaction merges
    matching,         \* restore-files: rows the files query has still to yield
    target,           \* restore-files: the files created under the target
    cache,            \* restore-files: the LruCache of downloaded archives
    downloads,        \* restore-files: downloads so far of each archive blob
    threads,          \* locking: where each thread of the pool stands
    mutex,            \* locking: the holders of the update and uploader mutexes
    uploader,         \* locking: Client.uploader, the cached Uploader of each thread
    call,             \* the arguments of a call of split, pack or unpack
    ret,              \* what that call returned
    removed,          \* how many of them have been removed
    outcome,          \* "committed" or "nochanges" once update returned Ok
    uploaded,         \* ids of the archives this session has uploaded
    sessions,         \* backup sessions started so far
    compactions       \* compaction sessions committed so far

vars == <<db, tx, remote, restored, pc, kind, keep, tree, todo, workers, archive,
          archive_id, INTERRUPTED, was_interrupted, unused_archives, small_archives, small_patchsets, matching, target, cache, downloads, threads, mutex, uploader, call, ret, removed,
          outcome, uploaded, sessions, compactions>>

IdleWorker == [phase |-> "idle", path |-> 0, new_file_id |-> 0, idx |-> 0,
               offset |-> 0, sealed |-> NoArchive]

\* the temporary tables live as long as the process
ExitProcess(st) == [st EXCEPT !.visited_files = {}, !.new_files = {}, !.new_mappings = {}]

\* no restore-files run and no call in progress
NoRestoreFiles == matching = {} /\ target = <<>> /\ cache = <<>> /\ downloads = <<>>
NoCall == call = <<>> /\ ret = <<>>
NoLocks == threads = <<>> /\ mutex = <<>> /\ uploader = <<>>

Init ==
    /\ db = EmptyDb
    /\ tx = EmptyDb
    /\ remote = NoRemote
    /\ restored = EmptyDb
    /\ pc = "idle"
    /\ kind = "none"
    /\ keep = FALSE
    /\ tree = <<>>
    /\ todo = {}
    /\ workers = [w \in Workers |-> IdleWorker]
    /\ archive = NoArchive
    /\ archive_id = 0
    /\ INTERRUPTED = FALSE
    /\ was_interrupted = FALSE
    /\ unused_archives = <<>>
    /\ small_patchsets = <<>>
    /\ small_archives = <<>>
    /\ NoRestoreFiles
    /\ NoCall
    /\ NoLocks
    /\ removed = 0
    /\ outcome = "none"
    /\ uploaded = {}
    /\ sessions = 0
    /\ compactions = 0

\* variant: the transaction of the connection is committed when it is
\* dropped
ProcessEndsCommitting ==
    /\ db' = ExitProcess(IF pc = "idle" \/ kind = "restore" THEN db ELSE tx)
    /\ tx' = EmptyDb
    /\ pc' = "idle"
    /\ kind' = "none"
    /\ keep' = FALSE
    /\ tree' = <<>>
    /\ todo' = {}
    /\ workers' = [w \in Workers |-> IdleWorker]
    /\ archive' = NoArchive
    /\ archive_id' = 0
    /\ INTERRUPTED' = FALSE
    /\ was_interrupted' = FALSE
    /\ unused_archives' = <<>>
    /\ small_patchsets' = <<>>
    /\ small_archives' = <<>>
    /\ UNCHANGED <<matching, target, cache, downloads, threads, mutex, uploader, call, ret>>
    /\ removed' = 0
    /\ outcome' = "none"
    /\ uploaded' = {}
    /\ UNCHANGED <<remote, restored, sessions, compactions>>

\* the process ends (an error return of main, or a crash): an open
\* transaction is rolled back
ProcessEnds ==
    /\ db' = ExitProcess(db)
    /\ tx' = EmptyDb
    /\ pc' = "idle"
    /\ kind' = "none"
    /\ keep' = FALSE
    /\ tree' = <<>>
    /\ todo' = {}
    /\ workers' = [w \in Workers |-> IdleWorker]
    /\ archive' = NoArchive
    /\ archive_id' = 0
    /\ INTERRUPTED' = FALSE
    /\ was_interrupted' = FALSE
    /\ unused_archives' = <<>>
    /\ small_patchsets' = <<>>
    /\ small_archives' = <<>>
    /\ UNCHANGED <<matching, target, cache, downloads, threads, mutex, uploader, call, ret>>
    /\ removed' = 0
    /\ outcome' = "none"
    /\ uploaded' = {}
    /\ UNCHANGED <<remote, restored, sessions, compactions>>

\* Manifest::update up to the call of the producer
BeginUpdate(k, keep_unvisited_files, t) ==
    LET st == insert_archive(delete_visited_files(db))
    IN  /\ tx' = st
        /\ archive_id' = insert_archive_id(delete_visited_files(db))
        /\ archive' = NewArchive(insert_archive_id(delete_visited_files(db)))
        /\ pc' = "producer"
        /\ kind' = k
        /\ keep' = keep_unvisited_files
        /\ tree' = t
        /\ todo' = DOMAIN t
        /\ workers' = [w \in Workers |-> IdleWorker]
        /\ was_interrupted' = FALSE
        /\ unused_archives' = <<>>
        /\ small_patchsets' = <<>>
        /\ small_archives' = <<>>
        /\ UNCHANGED <<matching, target, cache, downloads, threads, mutex, uploader, call, ret>>
        /\ removed' = 0
        /\ outcome' = "none"
        /\ uploaded' = {}
        /\ UNCHANGED <<db, remote, restored, INTERRUPTED>>

\* main: the backup subcommand in a new process
BeginBackup ==
    /\ pc = "idle"
    /\ sessions < MaxSessions
    /\ sessions' = sessions + 1
    /\ \E keep_deleted_files \in BOOLEAN, t \in Trees :
          BeginUpdate("backup", keep_deleted_files, t)
    /\ UNCHANGED compactions

\* main: the collect-small-archives subcommand in a new process
BeginCompaction ==
    /\ pc = "idle"
    /\ BeginUpdate("compact", TRUE, <<>>)
    /\ UNCHANGED <<sessions, compactions>>

\* the backup producer is running
Producing == pc = "producer" /\ kind = "backup"

\* the signal handler installed by the backup producer
Interrupt ==
    /\ Producing
    /\ ~INTERRUPTED
    /\ INTERRUPTED' = TRUE
    /\ UNCHANGED <<db, tx, remote, restored, pc, kind, keep, tree, todo, workers,
                   archive, archive_id, was_interrupted, unused_archives, small_archives, small_patchsets, matching, target, cache, downloads, threads, mutex, uploader, call, ret, removed,
                   outcome, uploaded, sessions, compactions>>

(* ------------------------------ the walk ------------------------------ *)

SessionVars == <<kind, keep, tree, archive_id, was_interrupted, unused_archives, small_archives, small_patchsets, matching, target, cache, downloads, threads, mutex, uploader, call, ret,
                 removed, outcome, sessions, compactions>>

\* backup: a path reached after the interrupt is not walked
SkipPath ==
    /\ Producing
    /\ INTERRUPTED
    /\ \E path \in todo : todo' = todo \ {path}
    /\ UNCHANGED <<db, tx, remote, restored, pc, workers, archive, INTERRUPTED,
                   uploaded>>
    /\ UNCHANGED SessionVars

\* the trees of the sessions hold regular files of one mode
RegularMode == Min(Modes)

\* backup_file up to split: Update::open_file under the mutex
OpenFile(w) ==
    /\ Producing
    /\ ~INTERRUPTED
    /\ workers[w].phase = "idle"
    /\ \E path \in todo :
          LET r == insert_new_file(tx, path, SumLen(tree[path]), RegularMode, NULL)
          IN  /\ r.ok
              /\ tx' = r.st
              /\ todo' = todo \ {path}
              /\ workers' = [workers EXCEPT ![w] =
                    [IdleWorker EXCEPT !.phase = "chunk", !.path = path,
                                       !.new_file_id = NextRowid(tx.new_files),
                                       !.idx = 1]]
    /\ UNCHANGED <<db, remote, restored, pc, archive, INTERRUPTED, uploaded>>
    /\ UNCHANGED SessionVars

HasBlock(w) ==
    /\ Producing
    /\ workers[w].phase = "chunk"
    /\ workers[w].idx <= Len(tree[workers[w].path])

NextBlock(w) == tree[workers[w].path][workers[w].idx]

\* variant: the offset counts the chunks, not their bytes
AdvanceByOne(worker, block) ==
    [worker EXCEPT !.idx = @ + 1, !.offset = @ + 1]

Advance(worker, block) ==
    [worker EXCEPT !.idx = @ + 1, !.offset = @ + BlockLen(block)]

\* variant: the bytes of a known digest are written to the archive again
StoreKnownBlockAppends(w) ==
    /\ HasBlock(w)
    /\ LET block == NextBlock(w)
           block_id == select_block(tx, hash(block))
           r == insert_new_mapping(tx, workers[w].new_file_id, workers[w].offset,
                                   block_id[1])
       IN  /\ block_id # NULL
           /\ r.ok
           /\ tx' = r.st
           /\ archive' = archive_store_block(archive, hash(block), block)
           /\ workers' = [workers EXCEPT ![w] = Advance(@, block)]
    /\ UNCHANGED <<db, remote, restored, pc, todo, INTERRUPTED, uploaded>>
    /\ UNCHANGED SessionVars

\* store_block, the branch of a known digest: only a NewMapping
StoreKnownBlock(w) ==
    /\ HasBlock(w)
    /\ LET block == NextBlock(w)
           block_id == select_block(tx, hash(block))
           r == insert_new_mapping(tx, workers[w].new_file_id, workers[w].offset,
                                   block_id[1])
       IN  /\ block_id # NULL
           /\ r.ok
           /\ tx' = r.st
           /\ workers' = [workers EXCEPT ![w] = Advance(@, block)]
    /\ UNCHANGED <<db, remote, restored, pc, todo, archive, INTERRUPTED, uploaded>>
    /\ UNCHANGED SessionVars

\* the first locked section of store_block for a new digest
store_new_block(st, inflight, new_file_id, offset, block) ==
    LET r1 == insert_block(st, hash(block), inflight.id)
        r2 == insert_new_mapping(r1.st, new_file_id, offset, NextRowid(st.blocks))
    IN  [ok |-> r1.ok /\ r2.ok, st |-> r2.st,
         archive |-> archive_store_block(inflight, hash(block), block)]

\* store_block, a new digest that leaves the archive below min_archive_len
StoreNewBlock(w) ==
    /\ HasBlock(w)
    /\ LET block == NextBlock(w)
           r == store_new_block(tx, archive, workers[w].new_file_id,
                                workers[w].offset, block)
       IN  /\ select_block(tx, hash(block)) = NULL
           /\ r.ok
           /\ archive_len(r.archive) < min_archive_len
           /\ tx' = r.st
           /\ archive' = r.archive
           /\ workers' = [workers EXCEPT ![w] = Advance(@, block)]
    /\ UNCHANGED <<db, remote, restored, pc, todo, INTERRUPTED, uploaded>>
    /\ UNCHANGED SessionVars

\* variant: the full archive is handed to the upload and stays the in-flight
\* archive of the session
RolloverShared(w) ==
    /\ HasBlock(w)
    /\ LET block == NextBlock(w)
           r == store_new_block(tx, archive, workers[w].new_file_id,
                                workers[w].offset, block)
       IN  /\ select_block(tx, hash(block)) = NULL
           /\ r.ok
           /\ archive_len(r.archive) >= min_archive_len
           /\ tx' = r.st
           /\ archive' = r.archive
           /\ workers' = [workers EXCEPT ![w] =
                 [Advance(@, block) EXCEPT !.phase = "upload", !.sealed = r.archive]]
    /\ UNCHANGED <<db, remote, restored, pc, todo, INTERRUPTED, uploaded>>
    /\ UNCHANGED SessionVars

\* store_block, a new digest that fills the archive: the archive is swapped
\* for a fresh one under the mutex
Rollover(w) ==
    /\ HasBlock(w)
    /\ LET block == NextBlock(w)
           r == store_new_block(tx, archive, workers[w].new_file_id,
                                workers[w].offset, block)
       IN  /\ select_block(tx, hash(block)) = NULL
           /\ r.ok
           /\ archive_len(r.archive) >= min_archive_len
           /\ tx' = insert_archive(r.st)
           /\ archive' = NewArchive(insert_archive_id(r.st))
           /\ workers' = [workers EXCEPT ![w] =
                 [Advance(@, block) EXCEPT !.phase = "upload", !.sealed = r.archive]]
    /\ UNCHANGED <<db, remote, restored, pc, todo, INTERRUPTED, uploaded>>
    /\ UNCHANGED SessionVars

\* store_block: the sealed archive is uploaded outside the mutex
UploadSealed(w) ==
    /\ Producing
    /\ workers[w].phase = "upload"
    /\ remote' = upload_archive(remote, workers[w].sealed)
    /\ uploaded' = uploaded \cup {workers[w].sealed.id}
    /\ workers' = [workers EXCEPT ![w].phase = "update"]
    /\ UNCHANGED <<db, tx, restored, pc, todo, archive, INTERRUPTED>>
    /\ UNCHANGED SessionVars

\* update_archive and collect_closed_new_files of an uploaded archive
seal_archive(st, sealed) ==
    collect_closed_new_files(
        update_archive(st, sealed.id, archive_len(sealed), FileId("archive", sealed.id),
                       pack(sealed.blocks, archive_len(sealed)).length))

\* store_block: the second locked section
UpdateSealed(w) ==
    /\ Producing
    /\ workers[w].phase = "update"
    /\ LET r == seal_archive(tx, workers[w].sealed)
       IN  /\ r.ok
           /\ tx' = r.st
    /\ workers' = [workers EXCEPT ![w].phase = "chunk", ![w].sealed = NoArchive]
    /\ UNCHANGED <<db, remote, restored, pc, todo, archive, INTERRUPTED, uploaded>>
    /\ UNCHANGED SessionVars

\* backup_file after split: Update::close_file under the mutex
CloseFile(w) ==
    /\ Producing
    /\ workers[w].phase = "chunk"
    /\ workers[w].idx > Len(tree[workers[w].path])
    /\ tx' = update_new_file(tx, workers[w].new_file_id)
    /\ workers' = [workers EXCEPT ![w] = IdleWorker]
    /\ UNCHANGED <<db, remote, restored, pc, todo, archive, INTERRUPTED, uploaded>>
    /\ UNCHANGED SessionVars

\* the producer returns Ok and Manifest::update reads the flag
ProducerReturns ==
    /\ Producing
    /\ todo = {}
    /\ \A w \in Workers : workers[w].phase = "idle"
    /\ pc' = "seal"
    /\ was_interrupted' = INTERRUPTED
    /\ UNCHANGED <<db, tx, remote, restored, kind, keep, tree, todo, workers, archive,
                   archive_id, INTERRUPTED, unused_archives, small_archives, small_patchsets, matching, target, cache, downloads, threads, mutex, uploader, call, ret, removed, outcome,
                   uploaded, sessions, compactions>>

\* the producer of Manifest::collect_small_archives, then the flag is read
CollectSmallArchives ==
    /\ pc = "producer"
    /\ kind = "compact"
    /\ \E order \in select_small_archives(tx) :
          LET r == collect_archives(tx, archive, order, remote)
          IN  /\ Len(order) > 1
              /\ r.ok
              /\ tx' = r.st
              /\ archive' = r.archive
              /\ small_archives' = order
    /\ pc' = "seal"
    /\ was_interrupted' = INTERRUPTED
    /\ UNCHANGED <<db, remote, restored, kind, keep, tree, todo, workers,
                   archive_id, INTERRUPTED, unused_archives, small_patchsets, matching, target, cache, downloads, threads, mutex, uploader, call, ret, removed, outcome,
                   uploaded, sessions, compactions>>

(* --------------------- the end of Manifest::update -------------------- *)

\* variant: a non-empty in-flight archive is uploaded, interrupted or not
seal_is_upload_nonempty == archive_len(archive) # 0

\* the decision on the in-flight archive after the producer returned
seal_is_upload == ~was_interrupted /\ archive_len(archive) # 0
seal_is_delete == was_interrupted \/ archive_id = archive.id

\* the in-flight archive is uploaded, its row filled, new files promoted
SealUpload ==
    /\ pc = "seal"
    /\ seal_is_upload
    /\ LET r == seal_archive(tx, archive)
       IN  /\ r.ok
           /\ tx' = r.st
    /\ remote' = upload_archive(remote, archive)
    /\ uploaded' = uploaded \cup {archive.id}
    /\ pc' = "gc"
    /\ UNCHANGED <<db, restored, todo, workers, archive, INTERRUPTED>>
    /\ UNCHANGED SessionVars

\* the row of the in-flight archive is deleted and its blocks cascade
SealDelete ==
    /\ pc = "seal"
    /\ ~seal_is_upload
    /\ seal_is_delete
    /\ LET r == delete_archive(tx, archive.id)
       IN  /\ r.ok
           /\ tx' = r.st
    /\ pc' = "gc"
    /\ UNCHANGED <<db, remote, restored, todo, workers, archive, INTERRUPTED, uploaded>>
    /\ UNCHANGED SessionVars

\* an empty archive opened by a rollover of an uninterrupted session stays
SealNothing ==
    /\ pc = "seal"
    /\ ~seal_is_upload
    /\ ~seal_is_delete
    /\ pc' = "gc"
    /\ UNCHANGED <<db, tx, remote, restored, todo, workers, archive, INTERRUPTED,
                   uploaded>>
    /\ UNCHANGED SessionVars

\* variant: the unused blobs are removed at once, inside the transaction
CollectGarbageRemoves ==
    /\ pc = "gc"
    /\ LET r == delete_unused_archives(tx, was_interrupted \/ keep)
       IN  /\ r.ok
           /\ ~patchset_is_empty(session_patchset(db, r.st))
           /\ tx' = r.st
           /\ unused_archives' = r.unused
           /\ UNCHANGED <<small_archives, small_patchsets, matching, target, cache, downloads, threads, mutex, uploader, call, ret>>
           /\ remote' = [remote EXCEPT !.archives = {b \in @ : b.id \notin Range(r.unused)}]
    /\ pc' = "upload_patchset"
    /\ UNCHANGED <<db, restored, kind, keep, tree, todo, workers, archive,
                   archive_id, INTERRUPTED, was_interrupted, removed, outcome,
                   uploaded, sessions, compactions>>

\* delete_unused_archives and the patchset of the session, which has changes
CollectGarbage ==
    /\ pc = "gc"
    /\ LET r == delete_unused_archives(tx, was_interrupted \/ keep)
       IN  /\ r.ok
           /\ ~patchset_is_empty(session_patchset(db, r.st))
           /\ tx' = r.st
           /\ unused_archives' = r.unused
           /\ UNCHANGED <<small_archives, small_patchsets, matching, target, cache, downloads, threads, mutex, uploader, call, ret>>
    /\ pc' = "upload_patchset"
    /\ UNCHANGED <<db, remote, restored, kind, keep, tree, todo, workers, archive,
                   archive_id, INTERRUPTED, was_interrupted, removed, outcome,
                   uploaded, sessions, compactions>>

\* "No changes recorded": update returns Ok and the transaction is dropped
NoChangesRecorded ==
    /\ pc = "gc"
    /\ LET r == delete_unused_archives(tx, was_interrupted \/ keep)
       IN  /\ r.ok
           /\ patchset_is_empty(session_patchset(db, r.st))
    /\ tx' = db
    /\ outcome' = "nochanges"
    /\ pc' = "done"
    /\ UNCHANGED <<db, remote, restored, kind, keep, tree, todo, workers, archive,
                   archive_id, INTERRUPTED, was_interrupted, unused_archives, small_archives, small_patchsets, matching, target, cache, downloads, threads, mutex, uploader, call, ret, removed,
                   uploaded, sessions, compactions>>

\* upload_patchset: the patchset row, the blob manifest_<id>, the row filled
UploadPatchset ==
    /\ pc = "upload_patchset"
    /\ remote' = upload_manifest(remote, insert_patchset_id(tx), session_patchset(db, tx))
    /\ tx' = upload_patchset(tx, session_patchset(db, tx))
    /\ pc' = "commit"
    /\ UNCHANGED <<db, restored, todo, workers, archive, INTERRUPTED, uploaded>>
    /\ UNCHANGED SessionVars

\* trans.commit()
Commit ==
    /\ pc = "commit"
    /\ db' = tx
    /\ outcome' = "committed"
    /\ pc' = "remove"
    /\ compactions' = IF kind = "compact" THEN compactions + 1 ELSE compactions
    /\ UNCHANGED <<tx, remote, restored, kind, keep, tree, todo, workers, archive,
                   archive_id, INTERRUPTED, was_interrupted, unused_archives, small_archives, small_patchsets, matching, target, cache, downloads, threads, mutex, uploader, call, ret, removed,
                   uploaded, sessions>>

\* one round of the loop over unused_archives: Client::remove
RemoveUnused ==
    /\ pc = "remove"
    /\ removed < Len(unused_archives)
    /\ remote' = remove_archive(remote, unused_archives[removed + 1])
    /\ removed' = removed + 1
    /\ UNCHANGED <<db, tx, restored, pc, kind, keep, tree, todo, workers, archive,
                   archive_id, INTERRUPTED, was_interrupted, unused_archives, small_archives, small_patchsets, matching, target, cache, downloads, threads, mutex, uploader, call, ret, outcome,
                   uploaded, sessions, compactions>>

\* update returns Ok
UpdateReturns ==
    /\ pc = "remove"
    /\ removed = Len(unused_archives)
    /\ pc' = "done"
    /\ UNCHANGED <<db, tx, remote, restored, kind, keep, tree, todo, workers, archive,
                   archive_id, INTERRUPTED, was_interrupted, unused_archives, small_archives, small_patchsets, matching, target, cache, downloads, threads, mutex, uploader, call, ret, removed,
                   outcome, uploaded, sessions, compactions>>

(* ------------------------ collect_small_patchsets --------------------- *)

\* main: the collect-small-patchsets subcommand in a new process, up to the
\* result of select_small_patchsets
BeginPatchsets ==
    /\ pc = "idle"
    /\ tx' = db
    /\ kind' = "patchsets"
    /\ small_patchsets' = select_small_patchsets(db, max_manifest_len)
    /\ UNCHANGED <<small_archives, matching, target, cache, downloads, threads, mutex, uploader, call, ret>>
    /\ pc' = "combine"
    /\ UNCHANGED <<db, remote, restored, keep, tree, todo, workers, archive,
                   archive_id, INTERRUPTED, was_interrupted, unused_archives, removed,
                   outcome, uploaded, sessions, compactions>>

\* "Not enough small patchsets": the error return
NotEnoughPatchsets ==
    /\ pc = "combine"
    /\ Len(small_patchsets) <= 1
    /\ ProcessEnds

\* the changegroup, upload_patchset of its output and delete_patchset of
\* every source row
CombinePatchsets ==
    /\ pc = "combine"
    /\ Len(small_patchsets) > 1
    /\ LET patchset == changegroup(EmptyPatchset, Reverse(small_patchsets), remote)
       IN  /\ remote' = upload_manifest(remote, insert_patchset_id(tx), patchset)
           /\ tx' = delete_patchsets(upload_patchset(tx, patchset), small_patchsets)
    /\ pc' = "commit_patchsets"
    /\ UNCHANGED <<db, restored, kind, keep, tree, todo, workers, archive,
                   archive_id, INTERRUPTED, was_interrupted, unused_archives, small_archives, small_patchsets, matching, target, cache, downloads, threads, mutex, uploader, call, ret, removed,
                   outcome, uploaded, sessions, compactions>>

\* trans.commit of collect_small_patchsets
CommitPatchsets ==
    /\ pc = "commit_patchsets"
    /\ db' = tx
    /\ pc' = "remove_patchsets"
    /\ outcome' = "committed"
    /\ UNCHANGED <<tx, remote, restored, kind, keep, tree, todo, workers, archive,
                   archive_id, INTERRUPTED, was_interrupted, unused_archives, small_archives, small_patchsets, matching, target, cache, downloads, threads, mutex, uploader, call, ret, removed,
                   uploaded, sessions, compactions>>

\* one round of the final loop: Client::remove of a source manifest
RemovePatchset ==
    /\ pc = "remove_patchsets"
    /\ removed < Len(small_patchsets)
    /\ remote' = remove_manifest(remote, small_patchsets[removed + 1])
    /\ removed' = removed + 1
    /\ UNCHANGED <<db, tx, restored, pc, kind, keep, tree, todo, workers, archive,
                   archive_id, INTERRUPTED, was_interrupted, unused_archives, small_archives, small_patchsets, matching, target, cache, downloads, threads, mutex, uploader, call, ret,
                   outcome, uploaded, sessions, compactions>>

\* collect_small_patchsets returns Ok
PatchsetsReturn ==
    /\ pc = "remove_patchsets"
    /\ removed = Len(small_patchsets)
    /\ pc' = "done"
    /\ UNCHANGED <<db, tx, remote, restored, kind, keep, tree, todo, workers, archive,
                   archive_id, INTERRUPTED, was_interrupted, unused_archives, small_archives, small_patchsets, matching, target, cache, downloads, threads, mutex, uploader, call, ret, removed,
                   outcome, uploaded, sessions, compactions>>

\* any step of the session fails (a statement, an upload, a download or a
\* remove returns an error) or the process is killed
Fail ==
    /\ pc \in {"producer", "seal", "gc", "upload_patchset", "commit", "remove",
              "restore", "combine", "commit_patchsets", "remove_patchsets"}
    /\ ProcessEnds

\* main returns
Exit ==
    /\ pc = "done"
    /\ ProcessEnds

\* the patchsets Manifest::restore has still to apply, in its order
restore_pending(st, rem) ==
    SelectSeq(restore_order(rem), LAMBDA id : id \notin Ids(st.patchsets))

\* restore-manifest on a fresh database file: the exclusive transaction of
\* Manifest::restore is opened and the tables are emptied
BeginRestore ==
    /\ pc = "idle"
    /\ tx' = clear_tables(restored)
    /\ kind' = "restore"
    /\ pc' = "restore"
    /\ UNCHANGED <<db, remote, restored, keep, tree, todo, workers, archive,
                   archive_id, INTERRUPTED, was_interrupted, unused_archives, small_archives, small_patchsets, matching, target, cache, downloads, threads, mutex, uploader, call, ret, removed,
                   outcome, uploaded, sessions, compactions>>

\* one round of the loop of Manifest::restore: download and apply_patchset
RestoreApply ==
    /\ pc = "restore"
    /\ restore_pending(tx, remote) # <<>>
    /\ LET m == RemoteManifest(remote, Head(restore_pending(tx, remote)))
       IN  tx' = apply_patchset(tx, m.id, unpack(m.blob), FileId("manifest", m.id),
                                m.blob.length)
    /\ UNCHANGED <<db, remote, restored, pc, kind, keep, tree, todo, workers, archive,
                   archive_id, INTERRUPTED, was_interrupted, unused_archives, small_archives, small_patchsets, matching, target, cache, downloads, threads, mutex, uploader, call, ret, removed,
                   outcome, uploaded, sessions, compactions>>

\* the commit of Manifest::restore
RestoreCommit ==
    /\ pc = "restore"
    /\ restore_pending(tx, remote) = <<>>
    /\ restored' = tx
    /\ pc' = "restored"
    /\ UNCHANGED <<db, tx, remote, kind, keep, tree, todo, workers, archive,
                   archive_id, INTERRUPTED, was_interrupted, unused_archives, small_archives, small_patchsets, matching, target, cache, downloads, threads, mutex, uploader, call, ret, removed,
                   outcome, uploaded, sessions, compactions>>

Next ==
    \/ BeginBackup
    \/ BeginCompaction
    \/ Interrupt
    \/ SkipPath
    \/ \E w \in Workers : OpenFile(w)
    \/ \E w \in Workers : StoreKnownBlock(w)
    \/ \E w \in Workers : StoreNewBlock(w)
    \/ \E w \in Workers : Rollover(w)
    \/ \E w \in Workers : UploadSealed(w)
    \/ \E w \in Workers : UpdateSealed(w)
    \/ \E w \in Workers : CloseFile(w)
    \/ ProducerReturns
    \/ CollectSmallArchives
    \/ SealUpload
    \/ SealDelete
    \/ SealNothing
    \/ CollectGarbage
    \/ NoChangesRecorded
    \/ UploadPatchset
    \/ Commit
    \/ RemoveUnused
    \/ UpdateReturns
    \/ Fail
    \/ Exit
    \/ BeginRestore
    \/ RestoreApply
    \/ RestoreCommit
    \/ BeginPatchsets
    \/ NotEnoughPatchsets
    \/ CombinePatchsets
    \/ CommitPatchsets
    \/ RemovePatchset
    \/ PatchsetsReturn

Spec == Init /\ [][Next]_vars

(* ---------------------------- restore-files --------------------------- *)

\* chunks of a file of the manifests restore-files is run on
MaxRestoreBlocks == 2
\* archives of those manifests
NumArchives == 2
\* Config::archive_cache_cap as the model's configuration sets it
archive_cache_cap == 1

\* the bytes of a chunk, and the byte File::set_len fills with
BlockBytes(block) == [i \in 1..BlockLen(block) |-> <<block, i>>]
ZeroByte == <<0, 0>>

\* the manifest and the remote that backups of the tree t with the symbolic
\* links and the modes leave when block b was stored in archive place[b]
BackedUpFiles(t, links, modes) ==
    {[id |-> path, path |-> path,
      size |-> IF path \in links THEN 0 ELSE SumLen(t[path]),
      mode |-> modes[path],
      symlink |-> IF path \in links THEN Some(path) ELSE NULL] : path \in DOMAIN t}

BackedUpMappings(t, links) ==
    UNION {{[file_id |-> path, offset |-> SumLen(SubSeq(t[path], 1, i - 1)),
             block_id |-> t[path][i]] : i \in DOMAIN t[path]}
           : path \in DOMAIN t \ links}

ArchiveEntries(blocks, arch_id) ==
    LET ids == SortedSeq({b.id : b \in {x \in blocks : x.archive_id = arch_id}})
    IN  [i \in DOMAIN ids |-> [digest |-> hash(ids[i]), block |-> ids[i]]]

BackedUp(t, links, modes, place) ==
    LET mappings == BackedUpMappings(t, links)
        blocks == {[id |-> b, digest |-> hash(b), archive_id |-> place[b]] :
                     b \in {m.block_id : m \in mappings}}
        stored == [id \in {b.archive_id : b \in blocks} |->
                     [id |-> id, blocks |-> ArchiveEntries(blocks, id)]]
        rows == {[id |-> id, length |-> Some(archive_len(stored[id])),
                  b2_file_id |-> Some(FileId("archive", id)),
                  b2_length |-> Some(pack(stored[id].blocks,
                                          archive_len(stored[id])).length)]
                 : id \in DOMAIN stored}
    IN  [db |-> [EmptyDb EXCEPT !.files = BackedUpFiles(t, links, modes),
                                !.mappings = mappings, !.blocks = blocks,
                                !.archives = rows,
                                !.seq_archives = Max({0} \cup DOMAIN stored)],
         remote |-> [NoRemote EXCEPT !.archives =
                        {[id |-> id, blob |-> pack(stored[id].blocks,
                                                   archive_len(stored[id]))]
                         : id \in DOMAIN stored}]]

\* variant: every block is written at the start of the file
write_all_at_start(bytes, block, offset) ==
    [i \in 1..Max({Len(bytes), BlockLen(block)}) |->
        IF i <= BlockLen(block) THEN BlockBytes(block)[i] ELSE bytes[i]]

\* File::write_all_at: the file grows when the write ends behind its end
write_all_at(bytes, block, offset) ==
    [i \in 1..Max({Len(bytes), offset + BlockLen(block)}) |->
        IF offset < i /\ i <= offset + BlockLen(block) THEN BlockBytes(block)[i - offset]
        ELSE IF i <= Len(bytes) THEN bytes[i]
        ELSE ZeroByte]

RECURSIVE write_offsets(_, _, _)
write_offsets(bytes, block, offsets) ==
    IF offsets = <<>> THEN bytes
    ELSE write_offsets(write_all_at(bytes, block, Head(offsets)), block, Tail(offsets))

\* the offsets restore_files collected for a digest of an archive
MappedOffsets(st, file_id, arch_id, digest) ==
    SortedSeq({m.offset : m \in {x \in st.mappings :
        /\ x.file_id = file_id
        /\ \E b \in st.blocks :
              b.id = x.block_id /\ b.archive_id = arch_id /\ b.digest = digest}})

\* Archive::read with the consumer of restore_files: every entry of the
\* archive whose digest the file maps is written at each of its offsets
RECURSIVE Archive_read(_, _, _, _, _)
Archive_read(entries, st, file_id, arch_id, bytes) ==
    IF entries = <<>> THEN bytes
    ELSE Archive_read(Tail(entries), st, file_id, arch_id,
                      write_offsets(bytes, Head(entries).block,
                                    MappedOffsets(st, file_id, arch_id,
                                                  Head(entries).digest)))

\* LruCache::get_mut moves a hit to the most recent place; LruCache::insert
\* drops the least recent entry once the capacity is exceeded
lru_touch(lru, arch_id) ==
    IF arch_id \in Range(lru)
      THEN Append(SelectSeq(lru, LAMBDA id : id # arch_id), arch_id)
      ELSE LET more == Append(lru, arch_id)
           IN  IF Len(more) > archive_cache_cap THEN Tail(more) ELSE more

\* the loop of restore_files over the archives of one file, in the order
\* the HashMap yields them
RECURSIVE restore_archives(_, _, _, _, _)
restore_archives(order, st, rem, file_id, run) ==
    IF order = <<>> THEN run
    ELSE LET arch_id == Head(order)
             hit == arch_id \in Range(run.cache)
             next == [cache |-> lru_touch(run.cache, arch_id),
                      downloads |-> IF hit THEN run.downloads
                                    ELSE [run.downloads EXCEPT ![arch_id] = @ + 1],
                      bytes |-> Archive_read(unpack(RemoteArchive(rem, arch_id).blob),
                                             st, file_id, arch_id, run.bytes)]
         IN  restore_archives(Tail(order), st, rem, file_id, next)

\* the archives that hold a block of the file
FileArchives(st, file_id) ==
    {b.archive_id : b \in {x \in st.blocks :
        \E m \in st.mappings : m.file_id = file_id /\ m.block_id = x.id}}

\* the enumerations of a finite set
Orders(S) == {o \in [1..Cardinality(S) -> S] : Range(o) = S}

InitRestoreFiles ==
    /\ \E t \in [Paths -> SeqsUpTo(MaxRestoreBlocks)], links \in SUBSET Paths,
          modes \in [Paths -> Modes], place \in [Blocks -> 1..NumArchives] :
          /\ db = BackedUp(t, links, modes, place).db
          /\ remote = BackedUp(t, links, modes, place).remote
    /\ tx = EmptyDb
    /\ restored = EmptyDb
    /\ pc = "idle"
    /\ kind = "none"
    /\ keep = FALSE
    /\ tree = <<>>
    /\ todo = {}
    /\ workers = [w \in Workers |-> IdleWorker]
    /\ archive = NoArchive
    /\ archive_id = 0
    /\ INTERRUPTED = FALSE
    /\ was_interrupted = FALSE
    /\ unused_archives = <<>>
    /\ small_patchsets = <<>>
    /\ small_archives = <<>>
    /\ removed = 0
    /\ outcome = "none"
    /\ uploaded = {}
    /\ sessions = 0
    /\ compactions = 0
    /\ NoRestoreFiles
    /\ NoCall
    /\ NoLocks

\* main: the restore-files subcommand up to the files query; the GLOB
\* filter is given by the paths it matches
BeginRestoreFiles ==
    /\ pc = "idle"
    /\ \E path_filter \in SUBSET Paths :
          matching' = {f \in db.files : f.path \in path_filter}
    /\ target' = <<>>
    /\ cache' = <<>>
    /\ downloads' = [id \in Ids(db.archives) |-> 0]
    /\ kind' = "restore-files"
    /\ pc' = "restore_files"
    /\ UNCHANGED <<db, tx, remote, restored, keep, tree, todo, workers, archive,
                   archive_id, INTERRUPTED, was_interrupted, unused_archives,
                   small_patchsets, small_archives, removed, outcome, uploaded, sessions, compactions,
                   threads, mutex, uploader, call, ret>>

\* the signal handler while restore-files runs
InterruptRestoreFiles ==
    /\ pc = "restore_files"
    /\ ~INTERRUPTED
    /\ INTERRUPTED' = TRUE
    /\ UNCHANGED <<db, tx, remote, restored, pc, kind, keep, tree, todo, workers,
                   archive, archive_id, was_interrupted, unused_archives,
                   small_patchsets, small_archives, removed, outcome, uploaded, sessions, compactions,
                   matching, target, cache, downloads, threads, mutex, uploader, call, ret>>

\* one round of the loop over the files for a symbolic link
RestoreSymlink ==
    /\ pc = "restore_files"
    /\ \E file \in matching :
          /\ file.symlink # NULL
          /\ target' = [path \in DOMAIN target \cup {file.path} |->
                           IF path = file.path THEN [symlink |-> file.symlink]
                           ELSE target[path]]
          /\ matching' = matching \ {file}
    /\ UNCHANGED <<db, tx, remote, restored, pc, kind, keep, tree, todo, workers,
                   archive, archive_id, INTERRUPTED, was_interrupted, unused_archives,
                   small_patchsets, small_archives, removed, outcome, uploaded, sessions, compactions,
                   cache, downloads, threads, mutex, uploader, call, ret>>

\* one round of the loop over the files for a regular file: create and
\* set_len, the archives of its blocks one after the other, set_permissions,
\* and the break on the interrupt flag
RestoreFile ==
    /\ pc = "restore_files"
    /\ \E file \in matching : \E order \in Orders(FileArchives(db, file.id)) :
          LET run == restore_archives(order, db, remote, file.id,
                        [cache |-> cache, downloads |-> downloads,
                         bytes |-> [i \in 1..file.size |-> ZeroByte]])
          IN  /\ file.symlink = NULL
              /\ target' = [path \in DOMAIN target \cup {file.path} |->
                               IF path = file.path
                               THEN [symlink |-> NULL, bytes |-> run.bytes,
                                     mode |-> file.mode]
                               ELSE target[path]]
              /\ cache' = run.cache
              /\ downloads' = run.downloads
              /\ matching' = IF INTERRUPTED THEN {} ELSE matching \ {file}
    /\ UNCHANGED <<db, tx, remote, restored, pc, kind, keep, tree, todo, workers,
                   archive, archive_id, INTERRUPTED, was_interrupted, unused_archives,
                   small_patchsets, small_archives, removed, outcome, uploaded, sessions, compactions,
                   threads, mutex, uploader, call, ret>>

\* restore_files returns Ok
RestoreFilesReturns ==
    /\ pc = "restore_files"
    /\ matching = {}
    /\ pc' = "files_restored"
    /\ UNCHANGED <<db, tx, remote, restored, kind, keep, tree, todo, workers,
                   archive, archive_id, INTERRUPTED, was_interrupted, unused_archives,
                   small_patchsets, small_archives, removed, outcome, uploaded, sessions, compactions,
                   matching, target, cache, downloads, threads, mutex, uploader, call, ret>>

NextRestoreFiles ==
    \/ BeginRestoreFiles
    \/ InterruptRestoreFiles
    \/ RestoreSymlink
    \/ RestoreFile
    \/ RestoreFilesReturns

SpecRestoreFiles == InitRestoreFiles /\ [][NextRestoreFiles]_vars

(* -------------------------------- split ------------------------------- *)

WINDOW_BITS == 6
WINDOW_SIZE == 2 ^ WINDOW_BITS
WINDOW_MASK == WINDOW_SIZE - 1
CHUNK_BITS == 15
CHUNK_SIZE == 2 ^ CHUNK_BITS
CHUNK_MASK == CHUNK_SIZE - 1
CHAR_OFFSET == 31

\* longest input drawn byte by byte
MaxInputLen == 8
\* longest input drawn as repetitions of one pattern
MaxRepeats == 12
\* read() results an input is handed over in
MaxReads == 3
\* longest window in which the second input of a call differs
MaxEdit == 1

\* byte values of the inputs; six times 217 and then 220 after a reset of
\* the rolling sum end in a boundary
Bytes == {217, 220}
Pattern == <<217, 217, 217, 217, 217, 217, 220>>

\* variant: the sums start at zero, without the CHAR_OFFSET of the window
RollingSum_zero ==
    [s1 |-> 0, s2 |-> 0, win |-> [i \in 0..WINDOW_MASK |-> 0], pos |-> 0]

\* RollingSum::new
RollingSum_new ==
    [s1 |-> WINDOW_SIZE * CHAR_OFFSET,
     s2 |-> WINDOW_SIZE * (WINDOW_SIZE - 1) * CHAR_OFFSET,
     win |-> [i \in 0..WINDOW_MASK |-> 0],
     pos |-> 0]

\* the loop body of RollingSum::split up to the digest; the sums stay far
\* below the width of usize.  pos + 1 & WINDOW_MASK is the remainder
roll(sum, new_val) ==
    LET old_val == sum.win[sum.pos]
        s1 == sum.s1 + new_val - old_val
    IN  [s1 |-> s1,
         s2 |-> sum.s2 + s1 - WINDOW_SIZE * (old_val + CHAR_OFFSET),
         win |-> [sum.win EXCEPT ![sum.pos] = new_val],
         pos |-> (sum.pos + 1) % (WINDOW_MASK + 1)]

\* the two halves of the u32 digest: s1 & 0xFFFF shifted up, s2 & 0xFFFF
sum_digest(sum) == [hi |-> sum.s1 % 65536, lo |-> sum.s2 % 65536]

\* digest & CHUNK_MASK == CHUNK_MASK: the bits of the mask lie in the low half
is_boundary(sum) == sum_digest(sum).lo % CHUNK_SIZE = CHUNK_MASK

\* RollingSum::split: Some(idx + 1) at the first boundary, else None; the
\* sum has taken in every byte it looked at
RECURSIVE RollingSum_split(_, _, _)
RollingSum_split(sum, buf, idx) ==
    IF idx > Len(buf) THEN [pos |-> NULL, sum |-> sum]
    ELSE LET next == roll(sum, buf[idx])
         IN  IF is_boundary(next) THEN [pos |-> Some(idx), sum |-> next]
             ELSE RollingSum_split(next, buf, idx + 1)

\* the while loop of split after a read: every boundary found in the bytes
\* not scanned yet ends a chunk and resets the sum
RECURSIVE split_chunks(_, _, _, _, _)
split_chunks(buf, start, end, sum, chunks) ==
    LET found == RollingSum_split(sum, SubSeq(buf, end + 1, Len(buf)), 1)
    IN  IF found.pos = NULL
          THEN [start |-> start, sum |-> found.sum, chunks |-> chunks]
          ELSE split_chunks(buf, end + found.pos[1], end + found.pos[1], RollingSum_new,
                            Append(chunks, SubSeq(buf, start + 1, end + found.pos[1])))

\* variant: the bytes carried over are scanned again after the refill
leftover_rescanned(buf, start) == 0

\* the bytes carried over to the front of the buffer: buf.len() - start
leftover(buf, start) == Len(buf) - start

\* variant: the bytes behind the last boundary are dropped at EOF
split_tail_dropped(buf, start, chunks) == chunks

\* the end of split: bytes behind the last boundary are the last chunk
split_tail(buf, start, chunks) ==
    IF Len(buf) > start THEN Append(chunks, SubSeq(buf, start + 1, Len(buf))) ELSE chunks

\* the outer loop of split; reads are the results of reader.read in turn,
\* and the read after the last of them returns 0
RECURSIVE split_loop(_, _, _, _, _)
split_loop(buf, start, sum, reads, chunks) ==
    LET end == leftover(buf, start)
        kept == SubSeq(buf, start + 1, Len(buf))
    IN  IF reads = <<>> THEN split_tail(kept, 0, chunks)
        ELSE LET read == split_chunks(kept \o Head(reads), 0, end, sum, chunks)
             IN  split_loop(kept \o Head(reads), read.start, read.sum, Tail(reads),
                            read.chunks)

\* split: the slices handed to the consumer, in order
split(reads) == split_loop(<<>>, 0, RollingSum_new, reads, <<>>)

RECURSIVE Flatten(_)
Flatten(seqs) == IF seqs = <<>> THEN <<>> ELSE Head(seqs) \o Flatten(Tail(seqs))

RECURSIVE ByteSeqs(_)
ByteSeqs(n) ==
    IF n = 0 THEN {<<>>}
    ELSE LET shorter == ByteSeqs(n - 1)
         IN  shorter \cup {Append(x, b) : x \in {y \in shorter : Len(y) = n - 1}, b \in Bytes}

RECURSIVE Repeat(_, _)
Repeat(x, n) == IF n = 0 THEN <<>> ELSE x \o Repeat(x, n - 1)

\* the input streams of the calls
Inputs == ByteSeqs(MaxInputLen) \cup {Repeat(Pattern, n) : n \in 1..MaxRepeats}

\* the ways a reader hands x over in at most n reads, none of them empty
RECURSIVE Partitions(_, _)
Partitions(x, n) ==
    IF x = <<>> THEN {<<>>}
    ELSE IF n = 1 THEN {<<x>>}
    ELSE {<<x>>} \cup UNION {{<<SubSeq(x, 1, i)>> \o rest :
                                rest \in Partitions(SubSeq(x, i + 1, Len(x)), n - 1)}
                             : i \in 1..(Len(x) - 1)}

\* x with the bytes from place a on replaced by those of r
Edit(x, a, r) ==
    [i \in DOMAIN x |-> IF a <= i /\ i < a + Len(r) THEN r[i - a + 1] ELSE x[i]]

Edits(x) ==
    {Edit(x, a, r) : a \in DOMAIN x,
                     r \in {y \in ByteSeqs(MaxEdit) : y # <<>> /\ Len(y) <= Len(x)}}

\* a call: the stream as the reader hands it over, and a second stream of
\* the same length that is read in one piece
SplitCalls(inputs) ==
    UNION {{[reads |-> p, edit |-> x] : p \in Partitions(x, MaxReads)}
           \cup {[reads |-> IF x = <<>> THEN <<>> ELSE <<x>>, edit |-> y] :
                    y \in Edits(x) \ {x}}
           : x \in inputs}

InitSplit ==
    /\ call \in SplitCalls(Inputs)
    /\ ret = <<>>
    /\ pc = "call"
    /\ kind = "split"
    /\ db = EmptyDb
    /\ tx = EmptyDb
    /\ remote = NoRemote
    /\ restored = EmptyDb
    /\ keep = FALSE
    /\ tree = <<>>
    /\ todo = {}
    /\ workers = [w \in Workers |-> IdleWorker]
    /\ archive = NoArchive
    /\ archive_id = 0
    /\ INTERRUPTED = FALSE
    /\ was_interrupted = FALSE
    /\ unused_archives = <<>>
    /\ small_patchsets = <<>>
    /\ small_archives = <<>>
    /\ removed = 0
    /\ outcome = "none"
    /\ uploaded = {}
    /\ sessions = 0
    /\ compactions = 0
    /\ NoRestoreFiles
    /\ NoLocks

\* split is called on both streams and returns
Split ==
    /\ pc = "call"
    /\ kind = "split"
    /\ ret' = [chunks |-> split(call.reads),
               edited |-> split(IF call.edit = <<>> THEN <<>> ELSE <<call.edit>>)]
    /\ pc' = "returned"
    /\ UNCHANGED <<db, tx, remote, restored, kind, keep, tree, todo, workers, archive,
                   archive_id, INTERRUPTED, was_interrupted, unused_archives,
                   small_patchsets, small_archives, removed, outcome, uploaded, sessions, compactions,
                   matching, target, cache, downloads, threads, mutex, uploader, call>>

NextSplit == Split

SpecSplit == InitSplit /\ [][NextSplit]_vars

(* ----------------- the sums of RollingSum, byte by byte --------------- *)

\* bytes fed to one RollingSum
MaxFed == 100
\* changes of the byte value within the bytes fed
MaxSwitches == 2

\* the byte values fed: the lowest and the highest
RollBytes == {0, 255}

\* the operands of the two subtractions of the loop body: s1 after
\* s1 += new_val and what is taken from it, s2 after s2 += s1 and what is
\* taken from it
roll_operands(sum, new_val) ==
    LET old_val == sum.win[sum.pos]
    IN  [new_val |-> new_val,
         old_val |-> old_val,
         s1 |-> sum.s1 + new_val,
         s2 |-> sum.s2 + roll(sum, new_val).s1,
         scaled |-> WINDOW_SIZE * (old_val + CHAR_OFFSET)]

\* a new RollingSum, no byte fed yet and nothing taken from the sums
InitRoll ==
    /\ call = [fn |-> "RollingSum::split", sum |-> RollingSum_new, fed |-> 0,
               switches |-> 0,
               ops |-> [new_val |-> 0, old_val |-> 0, s1 |-> RollingSum_new.s1,
                        s2 |-> RollingSum_new.s2, scaled |-> 0]]
    /\ ret = NULL
    /\ pc = "call"
    /\ kind = "roll"
    /\ db = EmptyDb
    /\ tx = EmptyDb
    /\ remote = NoRemote
    /\ restored = EmptyDb
    /\ keep = FALSE
    /\ tree = <<>>
    /\ todo = {}
    /\ workers = [w \in Workers |-> IdleWorker]
    /\ archive = NoArchive
    /\ archive_id = 0
    /\ INTERRUPTED = FALSE
    /\ was_interrupted = FALSE
    /\ unused_archives = <<>>
    /\ small_patchsets = <<>>
    /\ small_archives = <<>>
    /\ removed = 0
    /\ outcome = "none"
    /\ uploaded = {}
    /\ sessions = 0
    /\ compactions = 0
    /\ NoRestoreFiles
    /\ NoLocks

\* one round of the loop of RollingSum::split on the next byte of the
\* slice; ret is what split returns when the round ends it.  The sum is
\* kept as split leaves it, so the next round is the next byte of the slice
\* or the first byte of the slice of the next call
SplitByte ==
    /\ pc = "call"
    /\ kind = "roll"
    /\ call.fed < MaxFed
    /\ \E new_val \in RollBytes :
          LET switched == call.fed > 0 /\ new_val # call.ops.new_val
              next == roll(call.sum, new_val)
          IN  /\ switched => call.switches < MaxSwitches
              /\ call' = [call EXCEPT !.sum = next,
                                      !.fed = @ + 1,
                                      !.switches = IF switched THEN @ + 1 ELSE @,
                                      !.ops = roll_operands(call.sum, new_val)]
              /\ ret' = IF is_boundary(next) THEN Some(call.fed + 1) ELSE NULL
    /\ UNCHANGED <<db, tx, remote, restored, pc, kind, keep, tree, todo, workers, archive,
                   archive_id, INTERRUPTED, was_interrupted, unused_archives,
                   small_patchsets, small_archives, removed, outcome, uploaded, sessions, compactions,
                   matching, target, cache, downloads, threads, mutex, uploader>>

NextRoll == SplitByte

SpecRoll == InitRoll /\ [][NextRoll]_vars

(* --------------------------- pack and unpack -------------------------- *)

\* longest plaintext drawn
MaxPlainLen == 3
\* keys and compression levels drawn
NumKeys == 2

PlainBytes == {0, 1}
Keys == 1..NumKeys
Levels == {1, 17}
\* rand_bytes: the nonces drawn
IVs == {[i \in 1..IV_LEN |-> v] : v \in {0, 7}}

RECURSIVE PlainSeqs(_)
PlainSeqs(n) ==
    IF n = 0 THEN {<<>>}
    ELSE LET shorter == PlainSeqs(n - 1)
         IN  shorter \cup {Append(x, b) : x \in {y \in shorter : Len(y) = n - 1},
                                          b \in PlainBytes}

RECURSIVE SumBytes(_)
SumBytes(bytes) == IF bytes = <<>> THEN 0 ELSE Head(bytes) + SumBytes(Tail(bytes))

\* zstd Encoder: a frame is the magic number and the content, whose
\* compression is left out; Decoder: a frame without the magic is an error
ZstdMagic == <<40, 181, 47, 253>>
zstd_encode(compression_level, bytes) == ZstdMagic \o bytes
zstd_decode(frame) ==
    IF Len(frame) >= Len(ZstdMagic) /\ SubSeq(frame, 1, Len(ZstdMagic)) = ZstdMagic
      THEN [ok |-> TRUE, data |-> SubSeq(frame, Len(ZstdMagic) + 1, Len(frame)), err |-> ""]
      ELSE [ok |-> FALSE, data |-> <<>>, err |-> "zstd"]

\* AES-256-GCM: a keystream of key, nonce and position is added to the
\* bytes, and the tag authenticates key, nonce and ciphertext
keystream(key, iv, i) == (97 * key + SumBytes(iv) + 13 * i) % 256
encrypt(key, iv, bytes) == [i \in DOMAIN bytes |-> (bytes[i] + keystream(key, iv, i)) % 256]

\* variant: the decrypter hands the ciphertext on as it is
decrypt_off(key, iv, bytes) == bytes

decrypt(key, iv, bytes) ==
    [i \in DOMAIN bytes |-> (bytes[i] + 256 - keystream(key, iv, i)) % 256]
get_tag(key, iv, bytes) ==
    [j \in 1..TAG_LEN |-> (31 * key + SumBytes(iv) + SumBytes(bytes) + j) % 256]

\* pack: compress, encrypt under a fresh nonce, append nonce and tag
pack_bytes(key, compression_level, plaintext, iv) ==
    LET out == encrypt(key, iv, zstd_encode(compression_level, plaintext))
    IN  out \o iv \o get_tag(key, iv, out)

\* unpack: the length check, nonce and tag from the end, decrypt with the
\* tag verified at finalize, then the decoder read to EOF
unpack_bytes(key, buf) ==
    IF Len(buf) < IV_LEN + TAG_LEN
      THEN [ok |-> FALSE, data |-> <<>>, err |-> "Buffer too short"]
      ELSE LET data_len == Len(buf) - IV_LEN - TAG_LEN
               iv == SubSeq(buf, data_len + 1, data_len + IV_LEN)
               tag == SubSeq(buf, data_len + IV_LEN + 1, data_len + IV_LEN + TAG_LEN)
               data == SubSeq(buf, 1, data_len)
           IN  IF tag # get_tag(key, iv, data)
                 THEN [ok |-> FALSE, data |-> <<>>, err |-> "openssl"]
                 ELSE zstd_decode(decrypt(key, iv, data))

\* a call of pack whose result is unpacked under the same or another key,
\* or a call of unpack on a buffer of any length around IV_LEN + TAG_LEN
PackCalls ==
    {[fn |-> "pack", key |-> k, other |-> o, compression_level |-> l, plaintext |-> x,
      buf |-> <<>>] :
        k \in Keys, o \in Keys, l \in Levels, x \in PlainSeqs(MaxPlainLen)}
    \cup {[fn |-> "unpack", key |-> k, other |-> k, compression_level |-> 0,
           plaintext |-> <<>>, buf |-> [i \in 1..n |-> b]] :
        k \in Keys, n \in 0..(IV_LEN + TAG_LEN + 1), b \in PlainBytes}

InitPack ==
    /\ call \in PackCalls
    /\ ret = <<>>
    /\ pc = "call"
    /\ kind = "pack"
    /\ db = EmptyDb
    /\ tx = EmptyDb
    /\ remote = NoRemote
    /\ restored = EmptyDb
    /\ keep = FALSE
    /\ tree = <<>>
    /\ todo = {}
    /\ workers = [w \in Workers |-> IdleWorker]
    /\ archive = NoArchive
    /\ archive_id = 0
    /\ INTERRUPTED = FALSE
    /\ was_interrupted = FALSE
    /\ unused_archives = <<>>
    /\ small_patchsets = <<>>
    /\ small_archives = <<>>
    /\ removed = 0
    /\ outcome = "none"
    /\ uploaded = {}
    /\ sessions = 0
    /\ compactions = 0
    /\ NoRestoreFiles
    /\ NoLocks

\* pack returns the blob
Pack ==
    /\ pc = "call"
    /\ kind = "pack"
    /\ call.fn = "pack"
    /\ \E iv \in IVs :
          ret' = pack_bytes(call.key, call.compression_level, call.plaintext, iv)
    /\ pc' = "packed"
    /\ UNCHANGED <<db, tx, remote, restored, kind, keep, tree, todo, workers, archive,
                   archive_id, INTERRUPTED, was_interrupted, unused_archives,
                   small_patchsets, small_archives, removed, outcome, uploaded, sessions, compactions,
                   matching, target, cache, downloads, threads, mutex, uploader, call>>

\* unpack of the blob pack returned, the reader read to EOF
UnpackPacked ==
    /\ pc = "packed"
    /\ ret' = unpack_bytes(call.other, ret)
    /\ pc' = "returned"
    /\ UNCHANGED <<db, tx, remote, restored, kind, keep, tree, todo, workers, archive,
                   archive_id, INTERRUPTED, was_interrupted, unused_archives,
                   small_patchsets, small_archives, removed, outcome, uploaded, sessions, compactions,
                   matching, target, cache, downloads, threads, mutex, uploader, call>>

\* unpack of a buffer that is given
UnpackBuffer ==
    /\ pc = "call"
    /\ kind = "pack"
    /\ call.fn = "unpack"
    /\ ret' = unpack_bytes(call.key, call.buf)
    /\ pc' = "returned"
    /\ UNCHANGED <<db, tx, remote, restored, kind, keep, tree, todo, workers, archive,
                   archive_id, INTERRUPTED, was_interrupted, unused_archives,
                   small_patchsets, small_archives, removed, outcome, uploaded, sessions, compactions,
                   matching, target, cache, downloads, threads, mutex, uploader, call>>

NextPack ==
    \/ Pack
    \/ UnpackPacked
    \/ UnpackBuffer

SpecPack == InitPack /\ [][NextPack]_vars


(* ------------- small-archive compaction of a damaged blob ------------- *)

\* chunks whose bytes can be taken for the bytes of another chunk of the
\* same length
Damageable == {b \in Blocks : \E c \in Blocks : c # b /\ BlockLen(c) = BlockLen(b)}
WrongBytes(b) == CHOOSE c \in Blocks : c # b /\ BlockLen(c) = BlockLen(b)

\* the remote when the entries of the chunks in bad carry, behind the
\* digest and the length they were stored with, other bytes
Damaged(rem, bad) ==
    [rem EXCEPT !.archives =
        {[id |-> a.id,
          blob |-> [a.blob EXCEPT !.sealed =
                      [i \in DOMAIN a.blob.sealed |->
                          IF a.blob.sealed[i].block \in bad
                            THEN [digest |-> a.blob.sealed[i].digest,
                                  block |-> WrongBytes(a.blob.sealed[i].block)]
                            ELSE a.blob.sealed[i]]]] : a \in rem.archives}]

\* a manifest of backed-up files and the remote that goes with it, some
\* archive entries damaged
InitCollect ==
    /\ \E t \in [Paths -> SeqsUpTo(MaxFileBlocks) \ {<<>>}],
          place \in [Blocks -> 1..NumArchives], bad \in SUBSET Damageable :
          /\ db = BackedUp(t, {}, [p \in Paths |-> 420], place).db
          /\ remote = Damaged(BackedUp(t, {}, [p \in Paths |-> 420], place).remote, bad)
    /\ tx = EmptyDb
    /\ restored = EmptyDb
    /\ pc = "idle"
    /\ kind = "none"
    /\ keep = FALSE
    /\ tree = <<>>
    /\ todo = {}
    /\ workers = [w \in Workers |-> IdleWorker]
    /\ archive = NoArchive
    /\ archive_id = 0
    /\ INTERRUPTED = FALSE
    /\ was_interrupted = FALSE
    /\ unused_archives = <<>>
    /\ small_patchsets = <<>>
    /\ small_archives = <<>>
    /\ removed = 0
    /\ outcome = "none"
    /\ uploaded = {}
    /\ sessions = 0
    /\ compactions = 0
    /\ NoRestoreFiles
    /\ NoCall
    /\ NoLocks

\* the collect-small-archives subcommand, run once
NextCollect ==
    \/ compactions = 0 /\ BeginCompaction
    \/ CollectSmallArchives
    \/ SealUpload
    \/ CollectGarbage
    \/ UploadPatchset
    \/ Commit
    \/ RemoveUnused
    \/ UpdateReturns
    \/ Fail

SpecCollect == InitCollect /\ [][NextCollect]_vars


(* ---------------------- backups of a file of chunks ------------------- *)

\* chunks of the one file these backups walk
MaxChunks == 3

\* main: the backup subcommand on an include root that holds at most the
\* one file, cut into up to MaxChunks chunks
BeginBackupFile ==
    /\ pc = "idle"
    /\ sessions < MaxSessions
    /\ sessions' = sessions + 1
    /\ \E keep_deleted_files \in BOOLEAN, D \in SUBSET {1} :
          \E t \in [D -> SeqsUpTo(MaxChunks)] :
              BeginUpdate("backup", keep_deleted_files, t)
    /\ UNCHANGED compactions

NextFile ==
    \/ BeginBackupFile
    \/ Interrupt
    \/ SkipPath
    \/ \E w \in Workers : OpenFile(w)
    \/ \E w \in Workers : StoreKnownBlock(w)
    \/ \E w \in Workers : StoreNewBlock(w)
    \/ \E w \in Workers : Rollover(w)
    \/ \E w \in Workers : UploadSealed(w)
    \/ \E w \in Workers : UpdateSealed(w)
    \/ \E w \in Workers : CloseFile(w)
    \/ ProducerReturns
    \/ SealUpload
    \/ SealDelete
    \/ SealNothing
    \/ CollectGarbage
    \/ NoChangesRecorded
    \/ UploadPatchset
    \/ Commit
    \/ RemoveUnused
    \/ UpdateReturns
    \/ Fail
    \/ Exit

SpecFile == Init /\ [][NextFile]_vars


(* ------------------ the mutexes of the backup workers ----------------- *)

\* store_block calls of one backup_file
MaxCalls == 2
\* Client::upload gives up after this many failed attempts
UPLOAD_TRIES == 5

\* everything but the locking state
OtherVars == <<db, tx, remote, restored, pc, kind, keep, tree, todo, workers, archive,
               archive_id, INTERRUPTED, was_interrupted, unused_archives,
               small_archives, small_patchsets, matching, target, cache, downloads,
               call, ret, removed, outcome, uploaded, sessions, compactions>>

\* the threads of the pool inside the backup producer, each before its
\* backup_file, no mutex held, no Uploader cached
InitLocks ==
    /\ db = EmptyDb
    /\ tx = insert_archive(EmptyDb)
    /\ remote = NoRemote
    /\ restored = EmptyDb
    /\ pc = "producer"
    /\ kind = "backup"
    /\ keep = FALSE
    /\ tree = <<>>
    /\ todo = {}
    /\ workers = [w \in Workers |-> IdleWorker]
    /\ archive = NewArchive(1)
    /\ archive_id = 1
    /\ INTERRUPTED = FALSE
    /\ was_interrupted = FALSE
    /\ unused_archives = <<>>
    /\ small_patchsets = <<>>
    /\ small_archives = <<>>
    /\ removed = 0
    /\ outcome = "none"
    /\ uploaded = {}
    /\ sessions = 1
    /\ compactions = 0
    /\ NoRestoreFiles
    /\ NoCall
    /\ threads = [t \in Workers |-> [at |-> "start", calls |-> 0, cnt |-> 0, dur |-> 0,
                                     uploader |-> NULL]]
    /\ mutex = [update |-> 0, uploader |-> 0]
    /\ uploader = <<>>

\* update.lock() of backup_file before open_file, of store_block and of
\* backup_file before close_file
LockOpen(t) ==
    /\ threads[t].at = "start"
    /\ mutex.update = 0
    /\ mutex' = [mutex EXCEPT !.update = t]
    /\ threads' = [threads EXCEPT ![t].at = "open_file"]
    /\ UNCHANGED <<uploader, OtherVars>>

\* open_file returns and the guard of the statement is dropped
OpenFileUnlock(t) ==
    /\ threads[t].at = "open_file"
    /\ mutex' = [mutex EXCEPT !.update = 0]
    /\ threads' = [threads EXCEPT ![t].at = "split"]
    /\ UNCHANGED <<uploader, OtherVars>>

\* split hands over a block: the first lock of store_block
LockStore(t) ==
    /\ threads[t].at = "split"
    /\ threads[t].calls < MaxCalls
    /\ mutex.update = 0
    /\ mutex' = [mutex EXCEPT !.update = t]
    /\ threads' = [threads EXCEPT ![t].at = "admit", ![t].calls = @ + 1]
    /\ UNCHANGED <<uploader, OtherVars>>

\* the block is known, or the archive stays below min_archive_len:
\* store_block returns inside the block and the guard is dropped
Admitted(t) ==
    /\ threads[t].at = "admit"
    /\ mutex' = [mutex EXCEPT !.update = 0]
    /\ threads' = [threads EXCEPT ![t].at = "split"]
    /\ UNCHANGED <<uploader, OtherVars>>

\* variant: the guard of the first block lives until store_block returns
SealedUnderLockKept(t) ==
    /\ threads[t].at = "admit"
    /\ threads' = [threads EXCEPT ![t].at = "take", ![t].cnt = 0, ![t].dur = 1]
    /\ UNCHANGED <<mutex, uploader, OtherVars>>

\* the archive is replaced by a new one and the block ends: the guard is
\* dropped before archive.upload
SealedUnderLock(t) ==
    /\ threads[t].at = "admit"
    /\ mutex' = [mutex EXCEPT !.update = 0]
    /\ threads' = [threads EXCEPT ![t].at = "take", ![t].cnt = 0, ![t].dur = 1]
    /\ UNCHANGED <<uploader, OtherVars>>

\* a statement under the update mutex fails: `?` returns, the guard is
\* dropped
ErrorUnderLock(t) ==
    /\ threads[t].at \in {"open_file", "admit", "update", "close_file"}
    /\ mutex.update = t
    /\ mutex' = [mutex EXCEPT !.update = 0]
    /\ threads' = [threads EXCEPT ![t].at = "failed"]
    /\ UNCHANGED <<uploader, OtherVars>>

\* Client::upload: self.uploader.lock() of the remove statement
LockRemove(t) ==
    /\ threads[t].at = "take"
    /\ mutex.uploader = 0
    /\ mutex' = [mutex EXCEPT !.uploader = t]
    /\ threads' = [threads EXCEPT ![t].at = "remove"]
    /\ UNCHANGED <<uploader, OtherVars>>

\* the entries of the map but the one of the key
MapRemove(map, key) == [k \in DOMAIN map \ {key} |-> map[k]]

\* the map with the entry of the key set
MapInsert(map, key, value) ==
    [k \in DOMAIN map \cup {key} |-> IF k = key THEN value ELSE map[k]]

\* variant: the cached Uploader is read and stays in the map
RemoveUploaderKept(t) ==
    /\ threads[t].at = "remove"
    /\ mutex' = [mutex EXCEPT !.uploader = 0]
    /\ threads' = [threads EXCEPT
          ![t].at = IF t \in DOMAIN uploader THEN "upload" ELSE "fetch",
          ![t].uploader = IF t \in DOMAIN uploader THEN Some(uploader[t]) ELSE NULL]
    /\ UNCHANGED <<uploader, OtherVars>>

\* remove(&thread_id), the guard dropped at the end of the statement; the
\* match goes on with the cached Uploader or calls Client::uploader
RemoveUploader(t) ==
    /\ threads[t].at = "remove"
    /\ uploader' = MapRemove(uploader, t)
    /\ mutex' = [mutex EXCEPT !.uploader = 0]
    /\ threads' = [threads EXCEPT
          ![t].at = IF t \in DOMAIN uploader THEN "upload" ELSE "fetch",
          ![t].uploader = IF t \in DOMAIN uploader THEN Some(uploader[t]) ELSE NULL]
    /\ UNCHANGED OtherVars

\* Client::uploader returns the upload URL and token of a new endpoint,
\* named here by the thread, the call and the attempt that asked for it
GetUploadUrl(t) ==
    /\ threads[t].at = "fetch"
    /\ threads' = [threads EXCEPT
          ![t].at = "upload",
          ![t].uploader = Some(<<t, threads[t].calls, threads[t].cnt>>)]
    /\ UNCHANGED <<mutex, uploader, OtherVars>>

\* Client::uploader fails: `?` returns the error from Client::upload
GetUploadUrlFailed(t) ==
    /\ threads[t].at = "fetch"
    /\ threads' = [threads EXCEPT ![t].at = "failed"]
    /\ UNCHANGED <<mutex, uploader, OtherVars>>

\* Uploader::upload succeeds
Uploaded(t) ==
    /\ threads[t].at = "upload"
    /\ threads' = [threads EXCEPT ![t].at = "put"]
    /\ UNCHANGED <<mutex, uploader, OtherVars>>

\* Uploader::upload fails before the last attempt: cnt is counted up and
\* the Uploader goes out of scope at the end of the loop body
UploadRetried(t) ==
    /\ threads[t].at = "upload"
    /\ threads[t].cnt + 1 < UPLOAD_TRIES
    /\ threads' = [threads EXCEPT ![t].at = "sleep", ![t].cnt = @ + 1,
                                  ![t].uploader = NULL]
    /\ UNCHANGED <<mutex, uploader, OtherVars>>

\* variant: the sleep does not grow
SleepConstant(t) ==
    /\ threads[t].at = "sleep"
    /\ threads' = [threads EXCEPT ![t].at = "take"]
    /\ UNCHANGED <<mutex, uploader, OtherVars>>

\* sleep(dur); dur *= 2; and the loop starts over
Sleep(t) ==
    /\ threads[t].at = "sleep"
    /\ threads' = [threads EXCEPT ![t].at = "take", ![t].dur = 2 * @]
    /\ UNCHANGED <<mutex, uploader, OtherVars>>

\* Uploader::upload fails and cnt reaches 5: upload returns Err
UploadFailed(t) ==
    /\ threads[t].at = "upload"
    /\ threads[t].cnt + 1 = UPLOAD_TRIES
    /\ threads' = [threads EXCEPT ![t].at = "failed", ![t].cnt = @ + 1,
                                  ![t].uploader = NULL]
    /\ UNCHANGED <<mutex, uploader, OtherVars>>

\* self.uploader.lock() of the insert statement
LockInsert(t) ==
    /\ threads[t].at = "put"
    /\ mutex.uploader = 0
    /\ mutex' = [mutex EXCEPT !.uploader = t]
    /\ threads' = [threads EXCEPT ![t].at = "insert"]
    /\ UNCHANGED <<uploader, OtherVars>>

\* insert(thread_id, uploader), the guard dropped; upload returns Ok
InsertUploader(t) ==
    /\ threads[t].at = "insert"
    /\ uploader' = MapInsert(uploader, t, threads[t].uploader[1])
    /\ mutex' = [mutex EXCEPT !.uploader = 0]
    /\ threads' = [threads EXCEPT ![t].at = "lock", ![t].uploader = NULL]
    /\ UNCHANGED OtherVars

\* the second lock of store_block
LockUpdate(t) ==
    /\ threads[t].at = "lock"
    /\ mutex.update = 0
    /\ mutex' = [mutex EXCEPT !.update = t]
    /\ threads' = [threads EXCEPT ![t].at = "update"]
    /\ UNCHANGED <<uploader, OtherVars>>

\* update_archive and collect_closed_new_files are done, store_block returns
UpdateUnlock(t) ==
    /\ threads[t].at = "update"
    /\ mutex' = [mutex EXCEPT !.update = 0]
    /\ threads' = [threads EXCEPT ![t].at = "split"]
    /\ UNCHANGED <<uploader, OtherVars>>

\* split is at the end of the file: update.lock() before close_file
LockClose(t) ==
    /\ threads[t].at = "split"
    /\ mutex.update = 0
    /\ mutex' = [mutex EXCEPT !.update = t]
    /\ threads' = [threads EXCEPT ![t].at = "close_file"]
    /\ UNCHANGED <<uploader, OtherVars>>

\* close_file returns, the guard is dropped, backup_file returns
CloseFileUnlock(t) ==
    /\ threads[t].at = "close_file"
    /\ mutex' = [mutex EXCEPT !.update = 0]
    /\ threads' = [threads EXCEPT ![t].at = "done"]
    /\ UNCHANGED <<uploader, OtherVars>>

NextLocks ==
    \/ \E t \in Workers : LockOpen(t)
    \/ \E t \in Workers : OpenFileUnlock(t)
    \/ \E t \in Workers : LockStore(t)
    \/ \E t \in Workers : Admitted(t)
    \/ \E t \in Workers : SealedUnderLock(t)
    \/ \E t \in Workers : ErrorUnderLock(t)
    \/ \E t \in Workers : LockRemove(t)
    \/ \E t \in Workers : RemoveUploader(t)
    \/ \E t \in Workers : GetUploadUrl(t)
    \/ \E t \in Workers : GetUploadUrlFailed(t)
    \/ \E t \in Workers : Uploaded(t)
    \/ \E t \in Workers : UploadRetried(t)
    \/ \E t \in Workers : Sleep(t)
    \/ \E t \in Workers : UploadFailed(t)
    \/ \E t \in Workers : LockInsert(t)
    \/ \E t \in Workers : InsertUploader(t)
    \/ \E t \in Workers : LockUpdate(t)
    \/ \E t \in Workers : UpdateUnlock(t)
    \/ \E t \in Workers : LockClose(t)
    \/ \E t \in Workers : CloseFileUnlock(t)

SpecLocks == InitLocks /\ [][NextLocks]_vars

(* ------------------ promotion of the closed new files ----------------- *)

\* the chunks of a file of the last backup and of a file of the walk
OldContents == {<<>>, <<1>>, <<1, 1>>}
NewContents == {<<>>, <<1>>, <<2>>, <<2, 1>>}

\* store_block for every chunk of a file, without rollover
RECURSIVE store_blocks(_, _, _, _, _)
store_blocks(st, inflight, new_file_id, content, idx) ==
    IF idx > Len(content) THEN st
    ELSE LET block == content[idx]
             offset == SumLen(SubSeq(content, 1, idx - 1))
             block_id == select_block(st, hash(block))
             s1 == IF block_id # NULL
                     THEN insert_new_mapping(st, new_file_id, offset, block_id[1]).st
                     ELSE store_new_block(st, inflight, new_file_id, offset, block).st
         IN  store_blocks(s1, inflight, new_file_id, content, idx + 1)

\* open_file, store_block and close_file for the walked paths in turn;
\* walked[path] is the mode, the chunks and whether the file is closed yet
RECURSIVE walk_files(_, _, _, _)
walk_files(st, inflight, walked, paths) ==
    IF paths = <<>> THEN st
    ELSE LET path == Head(paths)
             new_file_id == NextRowid(st.new_files)
             s1 == insert_new_file(st, path, SumLen(walked[path][2]), walked[path][1],
                                   NULL).st
             s2 == store_blocks(s1, inflight, new_file_id, walked[path][2], 1)
             s3 == IF walked[path][3] THEN update_new_file(s2, new_file_id) ELSE s2
         IN  walk_files(s3, inflight, walked, Tail(paths))

\* the transaction of a backup over the manifest of the last backup of the
\* tree old, when the files of walked went through the workers and the
\* in-flight archive is sealed (its row updated) or not
MidSession(old, walked, sealed) ==
    LET last == BackedUp([p \in DOMAIN old |-> old[p][2]], {},
                         [p \in DOMAIN old |-> old[p][1]], [b \in Blocks |-> 1]).db
        begun == insert_archive(last)
        inflight == NewArchive(insert_archive_id(last))
        stored == walk_files(begun, inflight, walked, Reverse(SortedSeq(DOMAIN walked)))
        ids == SortedSeq({b.id : b \in {x \in stored.blocks : x.archive_id = inflight.id}})
        digest(id) == (CHOOSE b \in stored.blocks : b.id = id).digest
        full == [inflight EXCEPT !.blocks =
                    [i \in DOMAIN ids |-> [digest |-> digest(ids[i]),
                                           block |-> digest(ids[i])[2]]]]
    IN  [db |-> last,
         st |-> IF sealed
                  THEN update_archive(stored, full.id, archive_len(full),
                                      FileId("archive", full.id),
                                      pack(full.blocks, archive_len(full)).length)
                  ELSE stored]

InitPromote ==
    /\ \E D \in SUBSET Paths, E \in SUBSET Paths :
       \E old \in [D -> Modes \X OldContents],
          walked \in [E -> Modes \X NewContents \X BOOLEAN], sealed \in BOOLEAN :
          /\ db = MidSession(old, walked, sealed).db
          /\ tx = MidSession(old, walked, sealed).st
          /\ call = [st |-> MidSession(old, walked, sealed).st]
    /\ ret = <<>>
    /\ pc = "collect"
    /\ kind = "promotion"
    /\ remote = NoRemote
    /\ restored = EmptyDb
    /\ keep = FALSE
    /\ tree = <<>>
    /\ todo = {}
    /\ workers = [w \in Workers |-> IdleWorker]
    /\ archive = NoArchive
    /\ archive_id = 0
    /\ INTERRUPTED = FALSE
    /\ was_interrupted = FALSE
    /\ unused_archives = <<>>
    /\ small_patchsets = <<>>
    /\ small_archives = <<>>
    /\ removed = 0
    /\ outcome = "none"
    /\ uploaded = {}
    /\ sessions = 0
    /\ compactions = 0
    /\ NoRestoreFiles
    /\ NoLocks

\* collect_closed_new_files, and the same statement run once more
CollectClosed ==
    /\ pc \in {"collect", "collected"}
    /\ collect_closed_new_files(tx).ok
    /\ tx' = collect_closed_new_files(tx).st
    /\ pc' = IF pc = "collect" THEN "collected" ELSE "again"
    /\ UNCHANGED <<db, remote, restored, kind, keep, tree, todo, workers, archive,
                   archive_id, INTERRUPTED, was_interrupted, unused_archives,
                   small_patchsets, small_archives, removed, outcome, uploaded, sessions,
                   compactions, matching, target, cache, downloads, threads, mutex,
                   uploader, call, ret>>

NextPromote == CollectClosed

SpecPromote == InitPromote /\ [][NextPromote]_vars

(* ---------------- a backup with --maybe-collect in one process -------- *)

\* Config::small_archives_upper_limit as the model's configuration sets it
small_archives_upper_limit == 0

\* main, after the update of the backup returned Ok: more small archives
\* than the limit start Manifest::collect_small_archives in the same
\* process, on the same connection and with the same INTERRUPTED flag
MaybeCollectSmallArchives ==
    /\ pc = "done"
    /\ kind = "backup"
    /\ Cardinality(SmallArchives(db)) > small_archives_upper_limit
    /\ BeginUpdate("compact", TRUE, <<>>)
    /\ UNCHANGED <<sessions, compactions>>

NextMaybeCollect ==
    \/ BeginBackup
    \/ Interrupt
    \/ SkipPath
    \/ \E w \in Workers : OpenFile(w)
    \/ \E w \in Workers : StoreKnownBlock(w)
    \/ \E w \in Workers : StoreNewBlock(w)
    \/ \E w \in Workers : Rollover(w)
    \/ \E w \in Workers : UploadSealed(w)
    \/ \E w \in Workers : UpdateSealed(w)
    \/ \E w \in Workers : CloseFile(w)
    \/ ProducerReturns
    \/ MaybeCollectSmallArchives
    \/ CollectSmallArchives
    \/ SealUpload
    \/ SealDelete
    \/ SealNothing
    \/ CollectGarbage
    \/ NoChangesRecorded
    \/ UploadPatchset
    \/ Commit
    \/ RemoveUnused
    \/ UpdateReturns
    \/ Fail
    \/ Exit

SpecMaybeCollect == Init /\ [][NextMaybeCollect]_vars


(* ------- a backup with --maybe-collect over earlier small archives ---- *)

\* the manifest and the remote that earlier backups left, every file of one
\* chunk and the chunks spread over the archives; the backup of this
\* process is the last one
InitSmallArchives ==
    /\ \E t \in [Paths -> SeqsUpTo(MaxFileBlocks) \ {<<>>}],
          place \in [Blocks -> 1..NumArchives] :
          /\ db = BackedUp(t, {}, [p \in Paths |-> RegularMode], place).db
          /\ remote = BackedUp(t, {}, [p \in Paths |-> RegularMode], place).remote
    /\ tx = EmptyDb
    /\ restored = EmptyDb
    /\ pc = "idle"
    /\ kind = "none"
    /\ keep = FALSE
    /\ tree = <<>>
    /\ todo = {}
    /\ workers = [w \in Workers |-> IdleWorker]
    /\ archive = NoArchive
    /\ archive_id = 0
    /\ INTERRUPTED = FALSE
    /\ was_interrupted = FALSE
    /\ unused_archives = <<>>
    /\ small_patchsets = <<>>
    /\ small_archives = <<>>
    /\ removed = 0
    /\ outcome = "none"
    /\ uploaded = {}
    /\ sessions = MaxSessions - 1
    /\ compactions = 0
    /\ NoRestoreFiles
    /\ NoCall
    /\ NoLocks

SpecSmallArchives == InitSmallArchives /\ [][NextMaybeCollect]_vars


(* ------------------------- copy_file_range_full ----------------------- *)

\* the longest range copied
MaxCopyLen == 3

\* File::read_exact_at: len bytes from offset, an error at the end of file
read_exact_at(bytes, len, offset) ==
    IF offset + len > Len(bytes)
      THEN [ok |-> FALSE, data |-> <<>>]
      ELSE [ok |-> TRUE, data |-> SubSeq(bytes, offset + 1, offset + len)]

\* the bytes of a file after data was written at offset: the file grows
\* when the write ends behind its end, a hole reads as zero
write_bytes_at(bytes, data, offset) ==
    [i \in 1..Max({Len(bytes), offset + Len(data)}) |->
        IF offset < i /\ i <= offset + Len(data) THEN data[i - offset]
        ELSE IF i <= Len(bytes) THEN bytes[i]
        ELSE 0]

\* the source files: byte i holds i; a file may end inside the range
SourceFiles == {[i \in 1..n |-> i] : n \in MaxCopyLen..(MaxCopyLen + 1)}

\* the target files: empty, or longer than any range, with bytes of their own
TargetFiles == {<<>>, [i \in 1..(MaxCopyLen + 2) |-> 100 + i]}

\* a call of copy_file_range_full at the start of its loop
CopyCalls ==
    {[fn |-> "copy_file_range_full", from |-> f, to |-> t, to0 |-> t,
      from_off |-> fo, to_off |-> tto, len0 |-> l,
      from_pos |-> fo, to_pos |-> tto, len |-> l, result |-> "none"] :
        f \in SourceFiles, t \in TargetFiles, fo \in 0..1, tto \in 0..1,
        l \in 0..MaxCopyLen}

InitCopy ==
    /\ call \in CopyCalls
    /\ ret = <<>>
    /\ pc = "call"
    /\ kind = "copy"
    /\ db = EmptyDb
    /\ tx = EmptyDb
    /\ remote = NoRemote
    /\ restored = EmptyDb
    /\ keep = FALSE
    /\ tree = <<>>
    /\ todo = {}
    /\ workers = [w \in Workers |-> IdleWorker]
    /\ archive = NoArchive
    /\ archive_id = 0
    /\ INTERRUPTED = FALSE
    /\ was_interrupted = FALSE
    /\ unused_archives = <<>>
    /\ small_patchsets = <<>>
    /\ small_archives = <<>>
    /\ removed = 0
    /\ outcome = "none"
    /\ uploaded = {}
    /\ sessions = 0
    /\ compactions = 0
    /\ NoRestoreFiles
    /\ NoLocks

\* the loop of copy_file_range_full is about to call copy_file_range
Copying == pc = "call" /\ kind = "copy" /\ call.len # 0

CopyStep(c, r, p) ==
    /\ call' = c
    /\ ret' = r
    /\ pc' = p
    /\ UNCHANGED <<db, tx, remote, restored, kind, keep, tree, todo, workers, archive,
                   archive_id, INTERRUPTED, was_interrupted, unused_archives,
                   small_patchsets, small_archives, removed, outcome, uploaded, sessions, compactions,
                   matching, target, cache, downloads, threads, mutex, uploader>>

\* Ok(written): the kernel copied some of the bytes and advanced both
\* positions
CopyWritten ==
    /\ Copying
    /\ \E written \in 1..Min({call.len, Len(call.from) - call.from_pos}) :
          CopyStep([call EXCEPT
                       !.to = write_bytes_at(@, SubSeq(call.from, call.from_pos + 1,
                                                       call.from_pos + written),
                                             call.to_pos),
                       !.from_pos = @ + written,
                       !.to_pos = @ + written,
                       !.len = @ - written,
                       !.result = "written"],
                   ret, "call")

\* Ok(0), the source is at its end: the WriteZero error
CopyZero ==
    /\ Copying
    /\ call.from_pos >= Len(call.from)
    /\ CopyStep([call EXCEPT !.result = "zero"], [ok |-> FALSE], "returned")

\* Err(EINTR): the loop goes round
CopyInterrupted ==
    /\ Copying
    /\ CopyStep([call EXCEPT !.result = "EINTR"], ret, "call")

\* variant: the fallback copies what is left, from the positions reached
CopyCrossDeviceFromPos ==
    /\ Copying
    /\ LET r == read_exact_at(call.from, call.len, call.from_pos)
       IN  IF r.ok
             THEN CopyStep([call EXCEPT !.to = write_bytes_at(@, r.data, call.to_pos),
                                        !.result = "EXDEV"],
                           [ok |-> TRUE], "returned")
             ELSE CopyStep([call EXCEPT !.result = "EXDEV"], [ok |-> FALSE], "returned")

\* Err(EXDEV): buf is resized to len, read at from_off, written at to_off,
\* and the loop is left
CopyCrossDevice ==
    /\ Copying
    /\ LET r == read_exact_at(call.from, call.len, call.from_off)
       IN  IF r.ok
             THEN CopyStep([call EXCEPT !.to = write_bytes_at(@, r.data, call.to_off),
                                        !.result = "EXDEV"],
                           [ok |-> TRUE], "returned")
             ELSE CopyStep([call EXCEPT !.result = "EXDEV"], [ok |-> FALSE], "returned")

\* any other Err: returned to the caller
CopyFailed ==
    /\ Copying
    /\ CopyStep([call EXCEPT !.result = "Err"], [ok |-> FALSE], "returned")

\* len is 0: the loop ends, Ok(())
CopyReturns ==
    /\ pc = "call"
    /\ kind = "copy"
    /\ call.len = 0
    /\ CopyStep(call, [ok |-> TRUE], "returned")

NextCopy ==
    \/ CopyWritten
    \/ CopyZero
    \/ CopyInterrupted
    \/ CopyCrossDevice
    \/ CopyFailed
    \/ CopyReturns

SpecCopy == InitCopy /\ [][NextCopy]_vars

(* ------------------------------- claims ------------------------------- *)

\* the digests a remote archive blob holds
BlobDigests(blob) == {unpack(blob)[i].digest : i \in DOMAIN unpack(blob)}

\* a session of this process has committed
Committed == pc \in {"remove", "done"} /\ outcome = "committed"

\* C2: at every point, also between two steps of a session and after a
\* failure at any step, every archive that holds a block of the committed
\* manifest has its blob on the remote and the blob holds the block; a step
\* takes archive blobs off the remote only after the commit of its session
\* and only blobs of archives whose rows that transaction deleted.
C2_CommittedBlocksHaveBlobs ==
    /\ [](\A b \in db.blocks :
            \E r \in remote.archives :
               r.id = b.archive_id /\ b.digest \in BlobDigests(r.blob))
    /\ [][\A r \in remote.archives :
            r.id \notin Ids(remote'.archives) =>
               /\ Committed
               /\ r.id \in Range(unused_archives)
               /\ r.id \notin Ids(db.archives)]_vars

\* a committed session has taken a blob off the remote while the committed
\* manifest still holds blocks
C2_Witness ==
    /\ Committed
    /\ removed > 0
    /\ db.blocks # {}

\* C3: after every committed session, interrupted ones included, every block
\* references an archive row with a b2_file_id, and every mapping references
\* a block and a file.
C3_SelfConsistent ==
    /\ \A b \in db.blocks :
          \E a \in db.archives : a.id = b.archive_id /\ a.b2_file_id # NULL
    /\ \A m \in db.mappings :
          /\ \E b \in db.blocks : b.id = m.block_id
          /\ \E f \in db.files : f.id = m.file_id

\* an interrupted session has committed blocks and mappings
C3_Witness ==
    /\ Committed
    /\ was_interrupted
    /\ db.mappings # {}
    /\ uploaded # {}

\* C7: after every committed session (backup, interrupted backup,
\* compaction) every block row is referenced by a mapping row.
C7_BlocksAreMapped ==
    \A b \in db.blocks : \E m \in db.mappings : m.block_id = b.id

\* a committed session whose garbage collection has dropped a block
C7_Witness ==
    /\ Committed
    /\ db.blocks # {}
    /\ \E i \in Range(unused_archives) : TRUE

\* C8: after every committed session every archive row is referenced by a
\* block row, whatever the in-flight archive held at the end.
C8_ArchivesHaveBlocks ==
    \A a \in db.archives : \E b \in db.blocks : b.archive_id = a.id

\* a session has committed with an empty in-flight archive
C8_Witness ==
    /\ Committed
    /\ archive_len(archive) = 0
    /\ db.archives # {}

\* C10: an archive that a committed session leaves without blocks has its
\* row deleted by the transaction of that session, and once the loop of
\* removes has run to its end its blob is off the remote.
C10_UnusedArchivesRemoved ==
    Committed =>
       /\ \A id \in Range(unused_archives) : id \notin Ids(db.archives)
       /\ pc = "done" =>
             \A id \in Range(unused_archives) : id \notin Ids(remote.archives)

\* update has returned after removing the blob of an unused archive
C10_Witness ==
    /\ Committed
    /\ pc = "done"
    /\ unused_archives # <<>>

\* the offset and digest of every chunk of a file content
ContentBlocks(content) ==
    {[offset |-> SumLen(SubSeq(content, 1, i - 1)), digest |-> hash(content[i])] :
        i \in DOMAIN content}

\* the offset and digest of every mapping of the file of a path
FileBlocks(st, path) ==
    {[offset |-> m.offset, digest |-> b.digest] :
        <<m, b>> \in {x \in st.mappings \X st.blocks :
                        /\ x[1].block_id = x[2].id
                        /\ \E f \in st.files : f.path = path /\ f.id = x[1].file_id}}

\* the manifest st holds the tree t as an earlier backup of it left it
DescribesTree(st, t) ==
    \A path \in DOMAIN t :
       /\ \E f \in st.files : f.path = path
       /\ FileBlocks(st, path) = ContentBlocks(t[path])

\* the session has not committed yet: db is the manifest it started from
BeforeCommit == pc \in {"producer", "seal", "gc", "upload_patchset", "commit"}

\* the archives this session has written: in flight, sealed, or uploaded
SessionArchives ==
    {archive}
       \cup {workers[w].sealed : w \in {x \in Workers : workers[x].sealed # NoArchive}}
       \cup {[id |-> r.id, blocks |-> unpack(r.blob)] :
                r \in {x \in remote.archives : x.id \in uploaded}}

EntryCount(a, digest) == Cardinality({i \in DOMAIN a.blocks : a.blocks[i].digest = digest})

\* C4: when garbage collection starts no NewFile row is left that is closed
\* and has all of its blocks in archives with a b2_file_id: every session
\* promotes once more at its end, also when the last archive is empty.
C4_PromotionBeforeGC ==
    pc = "gc" => select_closed_new_files(tx) = {}

\* C5: an uninterrupted backup session with keep_unvisited_files = false
\* deletes no file whose path it walked: every file of the manifest the
\* session started from whose path is in the walked tree is in the manifest
\* it commits.
C5_WalkedFilesSurvive ==
    (pc = "commit" /\ kind = "backup" /\ ~was_interrupted /\ ~keep) =>
       \A f \in db.files :
          f.path \in DOMAIN tree => \E g \in tx.files : g.path = f.path

\* C6: a backup session that walks a tree which the manifest already holds
\* unchanged inserts no block row, appends no bytes to any archive and
\* uploads no archive blob.
C6_DedupLaw ==
    (kind = "backup" /\ BeforeCommit /\ DescribesTree(db, tree)) =>
       /\ Ids(tx.blocks) \subseteq Ids(db.blocks)
       /\ archive_len(archive) = 0
       /\ \A w \in Workers : workers[w].sealed = NoArchive
       /\ uploaded = {}

\* an uninterrupted second backup of a tree with blocks is about to commit
C6_Witness ==
    /\ kind = "backup"
    /\ pc = "commit"
    /\ ~was_interrupted
    /\ DescribesTree(db, tree)
    /\ \E path \in DOMAIN tree : tree[path] # <<>>

\* C9: under every interleaving of the workers' store_block calls there is
\* one block row per digest, the bytes of every block row of the session
\* are in one archive exactly once, and every worker's file has a NewMapping
\* to the block row of each chunk it has stored.
C9_OneBlockPerDigest ==
    /\ \A b1, b2 \in tx.blocks : b1.digest = b2.digest => b1 = b2
    /\ Producing =>
          \A b \in {x \in tx.blocks : x.id \notin Ids(db.blocks)} :
             \E a \in SessionArchives :
                /\ a.id = b.archive_id
                /\ EntryCount(a, b.digest) = 1
                /\ \A o \in SessionArchives \ {a} : EntryCount(o, b.digest) = 0
    /\ Producing =>
          \A w \in {x \in Workers : workers[x].phase # "idle"} :
             \A i \in 1..(workers[w].idx - 1) :
                \E nm \in tx.new_mappings, b \in tx.blocks :
                   /\ nm.new_file_id = workers[w].new_file_id
                   /\ nm.offset = SumLen(SubSeq(tree[workers[w].path], 1, i - 1))
                   /\ nm.block_id = b.id
                   /\ b.digest = hash(tree[workers[w].path][i])

\* two workers have each stored a chunk of the same new content
C9_Witness ==
    /\ Producing
    /\ \E w1, w2 \in Workers :
          /\ w1 # w2
          /\ workers[w1].idx = 2
          /\ workers[w2].idx = 2
          /\ tree[workers[w1].path][1] = tree[workers[w2].path][1]
          /\ select_block(db, hash(tree[workers[w1].path][1])) = NULL

\* every blob manifest_<id> on the remote is a patchset the manifest recorded
NoOrphanManifest == Ids(remote.manifests) = Ids(db.patchsets)

RowsAgree(a, b) ==
    /\ a.files = b.files
    /\ a.blocks = b.blocks
    /\ a.mappings = b.mappings
    /\ a.archives = b.archives
    /\ a.patchsets = b.patchsets

\* C1: after any sequence of committed backup sessions from an empty
\* manifest, restore against the remote rebuilds the rows of files, blocks,
\* mappings, archives and patchsets of the local manifest.
C1_RestoreAgrees ==
    (pc = "restored" /\ compactions = 0 /\ NoOrphanManifest) => RowsAgree(db, restored)

\* a restore after two committed backup sessions
C1_Witness ==
    /\ pc = "restored"
    /\ compactions = 0
    /\ NoOrphanManifest
    /\ Cardinality(db.patchsets) = 2
    /\ db.mappings # {}

\* the tables of the manifest file and its sqlite_sequence rows
ManifestOf(st) ==
    <<st.patchsets, st.archives, st.files, st.blocks, st.mappings,
      st.seq_patchsets, st.seq_archives>>

\* the steps of a backup session, an archive compaction, a patchset
\* compaction and a restore-manifest that precede the commit
BeforeCommitSteps ==
    {"producer", "seal", "gc", "upload_patchset", "commit", "restore", "combine",
     "commit_patchsets"}

\* C11: a step of a backup session, of a compaction or of a restore-manifest
\* that fails before the commit ends the process with the transaction rolled
\* back: the committed manifest, and the manifest a restore writes, are
\* exactly as they were; the committed manifest changes in the commit step
\* of a session alone and the restored one in the commit of the restore.
C11_FailureRollsBack ==
    [][ /\ (pc \in BeforeCommitSteps /\ pc' = "idle")
            => /\ ManifestOf(db') = ManifestOf(db)
               /\ ManifestOf(restored') = ManifestOf(restored)
               /\ tx' = EmptyDb
        /\ ManifestOf(db') # ManifestOf(db)
            => /\ pc \in {"commit", "commit_patchsets"}
               /\ pc' \in {"remove", "remove_patchsets"}
        /\ restored' # restored => pc = "restore" /\ pc' = "restored" ]_vars

\* a session failed between the upload of its patchset and the commit: the
\* manifest blob is on the remote and the committed manifest, which held
\* rows before, has no row for it
C11_Witness ==
    /\ pc = "idle"
    /\ db.patchsets # {}
    /\ db.files # {}
    /\ \E m \in remote.manifests : \A p \in db.patchsets : m.id > p.id


\* garbage collection of a session of Manifest::update has run and its
\* transaction is still open
AfterGC == kind \in {"backup", "compact"} /\ pc \in {"upload_patchset", "commit"}

\* the mappings of one file
MappingsOf(st, file_id) == {m \in st.mappings : m.file_id = file_id}

\* C12: in a session that was interrupted or that runs with
\* keep_unvisited_files, every File row the committed manifest held at the
\* start of the session is still a row of the transaction after garbage
\* collection, under its id and path; a row the session did not visit is
\* there unchanged, with the mappings it had.
C12_UnvisitedFilesKept ==
    (AfterGC /\ (was_interrupted \/ keep))
        => \A f \in db.files :
              /\ \E g \in tx.files : g.id = f.id /\ g.path = f.path
              /\ f.id \notin tx.visited_files
                    => /\ f \in tx.files
                       /\ MappingsOf(tx, f.id) = MappingsOf(db, f.id)

\* a backup session that keeps deleted files, or was interrupted, is about
\* to commit and a file of the committed manifest that is no longer in the
\* tree was not visited
C12_Witness ==
    /\ kind = "backup"
    /\ pc = "commit"
    /\ was_interrupted \/ keep
    /\ \E f \in db.files : f.id \notin tx.visited_files /\ f.path \notin DOMAIN tree


\* a backup session whose producer has returned and that read the interrupt
\* flag as set
InterruptedSession == kind = "backup" /\ was_interrupted

C14_DownloadedOnce ==
    pc \in {"restore_files", "files_restored"}
        => \A id \in DOMAIN downloads : downloads[id] <= 1

\* the regular files restore-files has written so far
RestoredFiles ==
    {f \in db.files : f.symlink = NULL /\ f.path \in DOMAIN target}

\* C15: every regular file that restore-files has restored has the length
\* and the mode of its File row, and for each of its mappings the bytes
\* from the offset on are the bytes of the mapped block as its archive on
\* the remote stores them; with that every mapped block has been written.
C15_RestoredFilesMatch ==
    (pc \in {"restore_files", "files_restored"})
        => \A f \in RestoredFiles :
              /\ target[f.path].symlink = NULL
              /\ Len(target[f.path].bytes) = f.size
              /\ target[f.path].mode = f.mode
              /\ \A m \in MappingsOf(db, f.id) :
                    \E b \in db.blocks :
                       /\ b.id = m.block_id
                       /\ \E e \in Range(unpack(RemoteArchive(remote, b.archive_id).blob)) :
                             /\ e.digest = b.digest
                             /\ SubSeq(target[f.path].bytes, m.offset + 1,
                                       m.offset + BlockLen(e.block)) = BlockBytes(e.block)

\* restore-files returned without an interrupt after it restored a file of
\* two different blocks that sit in two archives
C15_Witness ==
    /\ pc = "files_restored"
    /\ ~INTERRUPTED
    /\ \E f \in RestoredFiles :
          /\ Cardinality(FileArchives(db, f.id)) = 2
          /\ Cardinality(MappingsOf(db, f.id)) = 2


\* the stream a call of split reads
Input == Flatten(call.reads)

\* the places behind which a chunk of the sequence ends
RECURSIVE Boundaries(_)
Boundaries(chunks) ==
    IF chunks = <<>> THEN {}
    ELSE {Len(Flatten(chunks))} \cup Boundaries(SubSeq(chunks, 1, Len(chunks) - 1))

\* C16: whatever the stream and however the reader hands it over, the
\* slices split passes to the consumer are none of them empty and, put
\* together in order, are the stream; bytes behind the last boundary are
\* the last slice.
C16_ChunksCoverInput ==
    (kind = "split" /\ pc = "returned")
        => /\ Flatten(ret.chunks) = Input
           /\ \A i \in DOMAIN ret.chunks : ret.chunks[i] # <<>>

\* the stream came in three reads, the sum found a boundary, and bytes
\* behind the last boundary were left at the end
C16_Witness ==
    /\ kind = "split" /\ pc = "returned"
    /\ Len(call.reads) = 3
    /\ Len(ret.chunks) >= 2
    /\ ~is_boundary(split_chunks(ret.chunks[Len(ret.chunks)], 0, 0, RollingSum_new,
                                 <<>>).sum)
    /\ split_chunks(ret.chunks[Len(ret.chunks)], 0, 0, RollingSum_new, <<>>).chunks = <<>>

\* C17: the chunks of a stream are the same however the reader hands the
\* stream over: the run over the reads and the run that gets the same bytes
\* in one read pass the same slices.
C17_PartitionIndependent ==
    (kind = "split" /\ pc = "returned" /\ call.edit = Input)
        => ret.chunks = ret.edited

\* a read ended inside a chunk that a later read completed at a boundary
C17_Witness ==
    /\ kind = "split" /\ pc = "returned" /\ call.edit = Input
    /\ Len(call.reads) >= 2
    /\ Len(ret.chunks) >= 2
    /\ Len(call.reads[1]) \notin Boundaries(ret.chunks)
    /\ Len(call.reads[1]) < Len(ret.chunks[1])

\* the places where two streams of one length differ
Differing(x, y) == {i \in DOMAIN x : x[i] # y[i]}

\* C18: two streams X and Y that agree outside a window of K bytes have the
\* same chunk boundaries outside the neighbourhood of the window that
\* reaches K + W bytes beyond it on either side, W the size of the rolling
\* window.
C18_BoundariesLocal ==
    (kind = "split" /\ pc = "returned" /\ call.edit # Input)
        => LET from == Min(Differing(Input, call.edit))
               to == Max(Differing(Input, call.edit))
               K == to - from + 1
               X == Boundaries(ret.chunks)
               Y == Boundaries(ret.edited)
           IN  \A p \in (X \ Y) \cup (Y \ X) :
                  from - (K + WINDOW_SIZE) <= p /\ p <= to + K + WINDOW_SIZE


\* C19: the reader that unpack returns for the blob pack made of a
\* plaintext under the same key yields, read to EOF, exactly the plaintext,
\* whatever the key, the level and the nonce; unpack rejects a buffer
\* shorter than nonce and tag together with "Buffer too short".
C19_PackRoundTrip ==
    (kind = "pack" /\ pc = "returned")
        => /\ (call.fn = "pack" /\ call.other = call.key)
                 => ret.ok /\ ret.data = call.plaintext
           /\ (call.fn = "unpack" /\ Len(call.buf) < IV_LEN + TAG_LEN)
                 => ~ret.ok /\ ret.err = "Buffer too short"

\* a plaintext of the greatest length drawn, with both byte values, came
\* back from unpack
C19_Witness ==
    /\ kind = "pack" /\ pc = "returned"
    /\ call.fn = "pack" /\ call.other = call.key
    /\ Len(call.plaintext) = MaxPlainLen
    /\ Range(call.plaintext) = PlainBytes
    /\ ret.ok


\* the source archives the compaction session at its commit has processed:
\* the loop replayed on the database and the archive the session began with
Processed ==
    {small_archives[i] : i \in DOMAIN
        read_archives(insert_archive(delete_visited_files(db)),
                      NewArchive(archive_id), small_archives, remote)}

BlockDigests(st) == {<<b.id, b.digest>> : b \in st.blocks}

\* the commit of a small-archive compaction
CompactionCommits == pc = "commit" /\ kind = "compact" /\ pc' = "remove"

\* a small-archive compaction has committed and update has returned
CompactionDone == pc = "done" /\ kind = "compact" /\ outcome = "committed"

\* C20: the commit of a small-archive compaction leaves the set of (block
\* id, digest) pairs as it was; every block that lived in a processed
\* source archive references, once committed, the archive the session
\* uploaded, which is a new one whose blob holds the block's digest; the
\* rows of the processed source archives are deleted by the commit, and
\* once update has returned no blob of a deleted source archive is left in
\* the remote
C20_CompactionCorrect ==
    /\ [][CompactionCommits =>
            /\ BlockDigests(db') = BlockDigests(db)
            /\ \A b \in db.blocks : b.archive_id \in Processed =>
                  /\ archive.id \notin Ids(db.archives)
                  /\ archive.id \in uploaded
                  /\ \E c \in db'.blocks :
                        c.id = b.id /\ c.digest = b.digest /\ c.archive_id = archive.id
                  /\ \E r \in remote.archives :
                        r.id = archive.id /\ b.digest \in BlobDigests(r.blob)
            /\ Processed # {}
            /\ Processed \cap Ids(db'.archives) = {}]_vars
    /\ [](CompactionDone =>
            \A i \in DOMAIN small_archives :
                small_archives[i] \notin Ids(db.archives) =>
                    \A blob \in remote.archives : blob.id # small_archives[i])

\* a compaction of at least two source archives has committed and returned:
\* the source rows and blobs are gone, the blocks live in the new archive
C20_Witness ==
    /\ CompactionDone
    /\ Len(small_archives) >= 2
    /\ \A i \in DOMAIN small_archives :
          /\ small_archives[i] \notin Ids(db.archives)
          /\ \A blob \in remote.archives : blob.id # small_archives[i]
    /\ Cardinality({b \in db.blocks : b.archive_id = archive.id}) >= 2
    /\ \E blob \in remote.archives : blob.id = archive.id

\* the entries of the in-flight archive whose bytes do not hash to the
\* digest they are stored under
Mismatched(a) == {i \in DOMAIN a.blocks : hash(a.blocks[i].block) # a.blocks[i].digest}

\* C21: a small-archive compaction that moved a block whose bytes, read
\* from the source archive, do not hash to the stored digest fails: it
\* does not commit, and the committed manifest never holds a block row
\* that points at the archive such a block was moved to
C21_MismatchFails ==
    /\ [][CompactionCommits => Mismatched(archive) = {}]_vars
    /\ [](kind = "compact" /\ Mismatched(archive) # {} =>
            \A b \in db.blocks : b.archive_id # archive.id)

\* a set of integers without a gap
Consecutive(S) == \A i \in S, j \in S : \A k \in i..j : k \in S

\* C22: once restore-manifest has committed, the ids of the patchsets
\* table are consecutive integers, whatever backup sessions, small-archive
\* and patchset compactions have left on the remote
C22_RestoredIdsGapFree ==
    pc = "restored" => Consecutive(Ids(restored.patchsets))

\* C22 as the code has it: once restore-manifest has committed, the ids of
\* the patchsets table are the ids of the manifest_<id> blobs on the
\* remote, each row with the file id and the length of its blob; the ids
\* are those the sessions gave and need not be consecutive
C22_RestoredIdsAreRemoteIds ==
    pc = "restored" =>
        /\ Ids(restored.patchsets) = Ids(remote.manifests)
        /\ \A p \in restored.patchsets :
              /\ p.b2_file_id = Some(FileId("manifest", p.id))
              /\ p.b2_length = Some(RemoteManifest(remote, p.id).blob.length)

\* restore-manifest has committed after a patchset compaction merged the
\* newest patchsets only: the ids have a gap
C22_Witness ==
    /\ pc = "restored"
    /\ Cardinality(restored.patchsets) >= 2
    /\ ~Consecutive(Ids(restored.patchsets))

\* the commit of a backup session
BackupCommits == pc = "commit" /\ kind = "backup" /\ pc' = "remove"

\* C23: the commit of a backup session adds exactly one row to the
\* patchsets table and takes none away; the row's id is new and above
\* every other, the remote holds the blob manifest_<id> with the length the
\* row records, and no row of the committed patchsets table has a NULL
\* b2_file_id or b2_length, at the commit and in every state
C23_OnePatchsetPerCommit ==
    /\ [][BackupCommits =>
            /\ db.patchsets \subseteq db'.patchsets
            /\ Cardinality(db'.patchsets \ db.patchsets) = 1
            /\ \A p \in db'.patchsets \ db.patchsets :
                  /\ \A q \in db.patchsets : q.id < p.id
                  /\ p.b2_file_id = Some(FileId("manifest", p.id))
                  /\ \E m \in remote.manifests :
                        m.id = p.id /\ p.b2_length = Some(m.blob.length)
            /\ \A p \in db'.patchsets : p.b2_file_id # NULL /\ p.b2_length # NULL]_vars
    /\ [](\A p \in db.patchsets : p.b2_file_id # NULL /\ p.b2_length # NULL)

\* the second backup session has committed its patchset next to the first
C23_Witness ==
    /\ pc = "remove"
    /\ kind = "backup"
    /\ outcome = "committed"
    /\ Cardinality(db.patchsets) = 2
    /\ \A p \in db.patchsets : \E m \in remote.manifests : m.id = p.id

\* the session has come to its change-set and the tables the session
\* records are, after delete_unused_archives, what they were at its start
ChangeSetEmpty ==
    /\ pc = "gc"
    /\ LET r == delete_unused_archives(tx, was_interrupted \/ keep)
       IN  /\ r.ok
           /\ r.st.archives = db.archives /\ r.st.blocks = db.blocks
           /\ r.st.files = db.files /\ r.st.mappings = db.mappings

\* C24: a session whose change-set is empty ends there, unless the process
\* dies: update returns with "No changes recorded", the transaction is
\* dropped with nothing committed, no blob is uploaded or removed in that
\* step, no row is added to the patchsets table; and up to that point of any
\* session no manifest blob was written and no blob removed
C24_NoChangesNoCommit ==
    /\ [][ChangeSetEmpty /\ pc' # "idle" =>
            /\ pc' = "done" /\ outcome' = "nochanges"
            /\ db' = db /\ tx' = db
            /\ remote' = remote
            /\ removed' = 0]_vars
    /\ [][(pc \in {"producer", "seal", "gc"}) /\ (kind \in {"backup", "compact"}) =>
            /\ remote'.manifests = remote.manifests
            /\ Ids(remote.archives) \subseteq Ids(remote'.archives)
            /\ db'.patchsets = db.patchsets]_vars
    /\ [](pc = "done" /\ outcome = "nochanges" => tx = db /\ removed = 0)

\* a second backup of an unchanged tree has returned with no changes
C24_Witness ==
    /\ pc = "done"
    /\ outcome = "nochanges"
    /\ kind = "backup"
    /\ db.patchsets # {}
    /\ db.files # {}
    /\ Ids(remote.manifests) = Ids(db.patchsets)

\* the mappings of a file, each with the byte length of its block
Extents(st, file_id) ==
    {[offset |-> m.offset,
      length |-> BlockLen((CHOOSE b \in st.blocks : b.id = m.block_id).digest[2])] :
        m \in {x \in st.mappings : x.file_id = file_id}}

RECURSIVE SumExtents(_)
SumExtents(E) ==
    IF E = {} THEN 0
    ELSE LET e == CHOOSE x \in E : TRUE IN e.length + SumExtents(E \ {e})

Uploading == {"take", "remove", "fetch", "upload", "sleep", "put", "insert"}

\* C26: a thread inside Client::upload does not hold the update mutex; no
\* thread holds the update mutex and the uploader mutex together; a held
\* mutex is held by a thread at a statement that ends by dropping the
\* guard, never by one that waits for a mutex; and as long as a thread has
\* not returned some thread can take a step
C26_LockDiscipline ==
    /\ \A t \in DOMAIN threads :
          /\ threads[t].at \in Uploading => mutex.update # t
          /\ ~(mutex.update = t /\ mutex.uploader = t)
          /\ mutex.update = t =>
                threads[t].at \in {"open_file", "admit", "update", "close_file"}
          /\ mutex.uploader = t => threads[t].at \in {"remove", "insert"}
    /\ (\E t \in DOMAIN threads : threads[t].at \notin {"done", "failed"})
          => ENABLED NextLocks

\* while one worker is inside Uploader::upload another one holds the update
\* mutex and admits a block
C26_Witness ==
    \E t, u \in DOMAIN threads :
        /\ threads[t].at = "upload"
        /\ threads[u].at = "admit"
        /\ mutex.update = u

\* the workers that hold a sealed archive, between the two locked sections
\* of store_block
Sealing == {w \in Workers : workers[w].phase \in {"upload", "update"}}

EntryDigests(entries) == {entries[i].digest : i \in DOMAIN entries}

\* the digests whose bytes went to the scratch file or blob of an archive
Received(id) ==
    IF archive.id = id THEN EntryDigests(archive.blocks)
    ELSE IF \E w \in Sealing : workers[w].sealed.id = id
      THEN EntryDigests(workers[CHOOSE w \in Sealing : workers[w].sealed.id = id].sealed.blocks)
      ELSE UNION {BlobDigests(a.blob) : a \in {x \in remote.archives : x.id = id}}

\* C27: while the workers of a backup session admit blocks and roll
\* archives over, every block row names the archive whose scratch file or
\* blob received its bytes; the in-flight archive and the sealed ones have
\* different ids, so nothing is appended to a sealed archive, and a sealed
\* archive does not change until its row is updated; a sealed archive is
\* uploaded once, as it was sealed, and its row gets the length it had then
C27_BlocksNameTheirArchive ==
    /\ [](Producing =>
            /\ \A b \in tx.blocks : b.digest \in Received(b.archive_id)
            /\ \A w \in Sealing :
                  /\ workers[w].sealed.id # archive.id
                  /\ \A v \in Sealing : v # w => workers[v].sealed.id # workers[w].sealed.id
                  /\ workers[w].phase = "upload" => workers[w].sealed.id \notin uploaded
                  /\ workers[w].phase = "update" =>
                        /\ workers[w].sealed.id \in uploaded
                        /\ \E a \in remote.archives :
                              /\ a.id = workers[w].sealed.id
                              /\ unpack(a.blob) = workers[w].sealed.blocks
            /\ archive.id \notin uploaded
            /\ \A a \in tx.archives : a.id \in uploaded /\ a.b2_file_id # NULL =>
                  \E r \in remote.archives :
                      /\ r.id = a.id
                      /\ a.length = Some(EntriesLen(unpack(r.blob)))
                      /\ a.b2_length = Some(r.blob.length))
    /\ [][Producing /\ Producing' =>
            /\ \A w \in Sealing : w \in Sealing' => workers'[w].sealed = workers[w].sealed
            /\ \A a \in remote.archives : a.id \in uploaded => a \in remote'.archives
            /\ Cardinality(uploaded' \ uploaded) <= 1]_vars
    /\ [](kind = "backup" /\ pc = "seal" =>
            \A a \in tx.archives : a.id >= archive_id /\ a.id # archive.id =>
                a.id \in uploaded /\ a.b2_file_id # NULL)

\* one worker holds a sealed, not yet uploaded archive while another has
\* admitted a new block into the archive that follows it
C27_Witness ==
    /\ Producing
    /\ \E w \in Sealing :
          /\ workers[w].phase = "upload"
          /\ archive.blocks # <<>>
          /\ archive.id > workers[w].sealed.id
          /\ \E b \in tx.blocks : b.archive_id = archive.id
          /\ \E b \in tx.blocks : b.archive_id = workers[w].sealed.id

\* the session of a backup is under way
InBackup == kind = "backup" /\ pc \in {"producer", "seal", "gc", "upload_patchset", "commit"}

\* the block is stored in an archive that has its b2_file_id
InUploadedArchive(st, block_id) ==
    \E b \in st.blocks :
        /\ b.id = block_id
        /\ \E a \in st.archives : a.id = b.archive_id /\ a.b2_file_id # NULL

\* C28: at every point of a backup session every row of mappings
\* references a block whose archive has its b2_file_id and whose blob is on
\* the remote; and a step of the session that takes a row out of new_files
\* (its promotion) finds the row closed and leaves every block its
\* new_mappings referenced in an archive that has its b2_file_id
C28_PromotionSafe ==
    /\ [](InBackup =>
            \A m \in tx.mappings :
                /\ InUploadedArchive(tx, m.block_id)
                /\ \A b \in tx.blocks : b.id = m.block_id =>
                      \E r \in remote.archives : r.id = b.archive_id)
    /\ [][InBackup /\ InBackup' =>
            \A nf \in tx.new_files : nf.id \notin Ids(tx'.new_files) =>
                /\ nf.closed
                /\ \A nm \in tx.new_mappings : nm.new_file_id = nf.id =>
                      InUploadedArchive(tx', nm.block_id)]_vars

\* a closed NewFile waits: one of its blocks is in an archive without
\* b2_file_id, while another archive of the session is sealed and updated
C28_Witness ==
    /\ Producing
    /\ \E a \in tx.archives : a.b2_file_id # NULL /\ a.id \notin Ids(db.archives)
    /\ \E nf \in tx.new_files :
          /\ nf.closed
          /\ \E nm \in tx.new_mappings :
                nm.new_file_id = nf.id /\ ~InUploadedArchive(tx, nm.block_id)

\* the rows of mappings that the NewMappings of a NewFile become for a file
Promoted(st, new_file_id, file_id) ==
    {[file_id |-> file_id, offset |-> nm.offset, block_id |-> nm.block_id]
     : nm \in {x \in st.new_mappings : x.new_file_id = new_file_id}}

\* the promotion of the NewFile nf from the state before to the state after
PromotedAs(before, after, nf) ==
    \E g \in after.files :
        /\ g.path = nf.path
        /\ \A h \in after.files : h.path = nf.path => h = g
        /\ g.size = nf.size /\ g.mode = nf.mode /\ g.symlink = nf.symlink
        /\ IF \E f \in before.files : f.path = nf.path
             THEN \E f \in before.files : f.path = nf.path /\ g.id = f.id
             ELSE g.id \notin Ids(before.files)
        /\ MappingsOf(after, g.id) = Promoted(before, nf.id, g.id)
        /\ g.id \in after.visited_files
        /\ nf.id \notin Ids(after.new_files)
        /\ ~\E nm \in after.new_mappings : nm.new_file_id = nf.id

\* C29: collect_closed_new_files succeeds; a promoted NewFile whose path
\* is the path of a File keeps the id of the File and gives it its size,
\* mode and symlink and exactly its mappings, a promoted NewFile of a new
\* path becomes a File of a new id; the File is visited, the NewFile row and
\* its NewMappings are gone; the Files of other paths, their mappings and
\* the NewFiles that are not promoted are as before; and running the
\* promotion once more changes nothing
C29_PromotionReplaces ==
    /\ [](kind = "promotion" /\ pc \in {"collect", "collected"} =>
            collect_closed_new_files(tx).ok)
    /\ [](kind = "promotion" /\ pc = "collected" =>
            LET before == call.st
                chosen == select_closed_new_files(before)
            IN  /\ \A nf \in chosen : PromotedAs(before, tx, nf)
                /\ \A f \in before.files :
                      (\A nf \in chosen : nf.path # f.path) =>
                          /\ f \in tx.files
                          /\ MappingsOf(tx, f.id) = MappingsOf(before, f.id)
                /\ {f.path : f \in tx.files} =
                      {f.path : f \in before.files} \cup {nf.path : nf \in chosen}
                /\ tx.new_files = before.new_files \ chosen
                /\ tx.new_mappings =
                      {nm \in before.new_mappings : nm.new_file_id \notin Ids(chosen)}
                /\ tx.visited_files \ before.visited_files =
                      {f.id : f \in {g \in tx.files : g.path \in {nf.path : nf \in chosen}}}
                /\ tx.blocks = before.blocks /\ tx.archives = before.archives)
    /\ [][kind = "promotion" /\ pc = "collected" => tx' = tx]_vars

\* a closed NewFile took the place of a File of its path that had another
\* size, another mode and more mappings, next to a File that was not walked
\* and a NewFile that stays
C29_Witness ==
    /\ kind = "promotion" /\ pc = "collected"
    /\ \E nf \in select_closed_new_files(call.st), f \in call.st.files :
          /\ nf.path = f.path
          /\ nf.id # f.id
          /\ nf.size # f.size /\ nf.mode # f.mode
          /\ Cardinality(MappingsOf(call.st, f.id)) = 2
          /\ Cardinality(MappingsOf(tx, f.id)) = 1
          /\ MappingsOf(tx, f.id) \cap MappingsOf(call.st, f.id) = {}
    /\ \E f \in tx.files : f \in call.st.files /\ MappingsOf(tx, f.id) # {}
    /\ tx.new_files # {}

\* the scratch tables of the transaction are empty
ScratchEmpty(st) == st.new_files = {} /\ st.new_mappings = {} /\ st.visited_files = {}

\* C30: when the producer of a session starts, new_files, new_mappings
\* and visited_files are empty, also in a session that follows another one
\* in the same process
C30_ScratchCleared ==
    [][pc # "producer" /\ pc' = "producer" => ScratchEmpty(tx')]_vars

\* a session that walks no file tree leaves the files and their mappings
\* as they are: no NewFile of an earlier session is promoted
C30_NoStalePromotion ==
    kind = "compact" => tx.files = db.files /\ tx.mappings = db.mappings

\* C31: when the end of Manifest::update has decided on the in-flight
\* archive and the archive is empty or the session was interrupted, the
\* archive has no row any more; and no archive row without b2_file_id is
\* among the unused archives that garbage collection selects
C31_EmptyArchiveDeleted ==
    pc = "gc" /\ kind \in {"backup", "compact"} =>
        /\ (archive_len(archive) = 0 \/ was_interrupted) =>
              archive.id \notin Ids(tx.archives)
        /\ \A a \in select_unused_archives(
                      delete_unused_blocks(IF was_interrupted \/ keep THEN tx
                                           ELSE delete_unvisited_files(tx))) :
              a.b2_file_id # NULL

\* a thread leaves Client::upload with an error in this step
UploadErr(t) == threads[t].at \in Uploading /\ threads'[t].at = "failed"

InUse == {"fetch", "upload", "sleep", "put", "insert"}

\* C33: under every interleaving of the Client::upload calls of the
\* threads, no two threads own the same Uploader and no thread owns one
\* that is in the map; the map holds under a thread's id only an Uploader
\* that this thread obtained, and holds none for a thread that is using one;
\* an entry appears only by the insert statement of its thread, which is
\* reached only after a successful Uploader::upload with that Uploader, and
\* none appears in the step of a failed upload
C33_EndpointsNotShared ==
    /\ [](\A t \in DOMAIN threads :
            /\ \A u \in DOMAIN threads \ {t} :
                  threads[t].uploader # NULL => threads[t].uploader # threads[u].uploader
            /\ \A k \in DOMAIN uploader : threads[t].uploader # Some(uploader[k])
            /\ threads[t].at \in InUse => t \notin DOMAIN uploader
            /\ threads[t].at \in {"upload", "put", "insert"} <=> threads[t].uploader # NULL)
    /\ [](/\ DOMAIN uploader \subseteq DOMAIN threads
          /\ \A k \in DOMAIN uploader : uploader[k][1] = k)
    /\ [][\A t \in DOMAIN threads :
            /\ t \in DOMAIN uploader' /\ t \notin DOMAIN uploader =>
                  /\ threads[t].at = "insert"
                  /\ threads[t].uploader = Some(uploader'[t])
            /\ threads'[t].at = "insert" => threads[t].at \in {"put", "insert"}
            /\ threads'[t].at = "put" /\ threads[t].at # "put" =>
                  /\ threads[t].at = "upload"
                  /\ threads'[t].uploader = threads[t].uploader
            /\ threads[t].at = "upload" /\ threads'[t].at \in {"sleep", "failed"} =>
                  /\ DOMAIN uploader' = DOMAIN uploader
                  /\ threads'[t].uploader = NULL]_vars

\* two threads upload at the same time, one with the Uploader its first
\* upload left in the map, the other with a new one after a failed attempt
C33_Witness ==
    \E t, u \in DOMAIN threads :
        /\ t # u
        /\ threads[t].at = "upload" /\ threads[u].at = "upload"
        /\ threads[t].uploader[1][2] < threads[t].calls
        /\ threads[u].cnt > 0

\* the sum of the blob lengths of the patchsets with the given ids
LengthOf(st, ids) == SumLengths({p \in st.patchsets : p.id \in ids})

\* C34: the ids select_small_patchsets returns come in descending order
\* and are a tail of the ids of the patchsets table: with an id every
\* higher id is selected, and a non-empty selection holds the highest id
\* and has blob lengths that sum to less than max_manifest_len; the tail is
\* maximal: with the next older patchset the sum reaches max_manifest_len;
\* with fewer than two selected the run ends with an error and leaves the
\* manifest and the remote as they are
C34_MaximalTail ==
    /\ [](kind = "patchsets" /\ pc = "combine" =>
            LET ids == Range(small_patchsets)
                all == Ids(db.patchsets)
            IN  /\ \A i, j \in DOMAIN small_patchsets :
                      i < j => small_patchsets[i] > small_patchsets[j]
                /\ ids \subseteq all
                /\ \A id \in ids, p \in all : p > id => p \in ids
                /\ ids # {} => Max(all) \in ids /\ LengthOf(db, ids) < max_manifest_len
                /\ all \ ids # {} =>
                      LengthOf(db, ids \cup {Max(all \ ids)}) >= max_manifest_len)
    /\ [][kind = "patchsets" /\ pc = "combine" /\ Len(small_patchsets) <= 1 =>
            pc' = "idle" /\ db' = db /\ remote' = remote]_vars

\* the two newest of three patchsets are selected, the oldest is not
C34_Witness ==
    /\ kind = "patchsets" /\ pc = "combine"
    /\ Len(small_patchsets) = 2
    /\ Cardinality(db.patchsets) = 3

\* the files, blocks, mappings and archives of two manifests are the same
SameData(a, b) ==
    /\ a.files = b.files /\ a.blocks = b.blocks
    /\ a.mappings = b.mappings /\ a.archives = b.archives

\* the manifest a restore onto an empty database builds from the patchset
\* blobs of the remote, applied in ascending id order
Replayed(rem) == restore(EmptyDb, rem)

\* C35: no step of a patchset compaction changes what a replay of the remote
\* yields: when the patchset blobs on the remote replay to the files, blocks,
\* mappings and archives of the committed manifest before a step of
\* collect_small_patchsets (the upload of the merged patchset, the commit,
\* the removal of an old blob, a crash between them), they do so after it
C35_ReplayPreserved ==
    [][(kind = "patchsets" /\ SameData(Replayed(remote), db)) =>
          SameData(Replayed(remote'), db')]_vars

\* a small-archive compaction whose producer has returned and whose session
\* read the interrupt flag as set
InterruptedCompaction == kind = "compact" /\ was_interrupted

\* the blocks that mappings of st reference
MappedBlocks(st) == {m.block_id : m \in st.mappings}

\* C36: a small-archive compaction that reads the interrupt flag as set at
\* its end (it runs in the process of an interrupted backup, the flag is
\* never reset) leaves the committed manifest with every mapping on a block
\* row and every mapped block in the blob of its archive on the remote; it
\* takes no archive blob off the remote unless every mapped block the blob
\* holds is in the blob of the block's archive afterwards
C36_InterruptedCompactionSafe ==
    /\ [](InterruptedCompaction =>
            \A m \in db.mappings :
               \E b \in db.blocks :
                  /\ b.id = m.block_id
                  /\ \E r \in remote.archives :
                        r.id = b.archive_id /\ b.digest \in BlobDigests(r.blob))
    /\ [][InterruptedCompaction =>
            \A r \in remote.archives :
               r.id \notin Ids(remote'.archives) =>
                  \A b \in db'.blocks :
                     (b.id \in MappedBlocks(db') /\ b.digest \in BlobDigests(r.blob)) =>
                        \E s \in remote'.archives :
                           s.id = b.archive_id /\ b.digest \in BlobDigests(s.blob)]_vars

\* the compaction after an interrupted backup is at its end: it has moved
\* mapped blocks of two small archives into the in-flight archive and has
\* read the flag as set
C36_Witness ==
    /\ InterruptedCompaction
    /\ pc = "seal"
    /\ Len(small_archives) > 1
    /\ \E b \in tx.blocks :
          b.archive_id = archive.id /\ b.id \in MappedBlocks(tx)

\* a session that allocates patchset ids is under way on the manifest
Allocating == pc # "idle" /\ pc' # "idle" /\ kind \in {"backup", "compact", "patchsets"}

\* C37: the id a backup session, a small-archive compaction or a patchset
\* compaction allocates for its patchset is greater than every id in the
\* patchsets table at that point, the ids a compaction then deletes
\* included, and no lower than any patchset blob on the remote, so the new
\* blob replays last; the AUTOINCREMENT counter of the committed manifest
\* never decreases and is never below an id of the table, and every id a
\* commit adds is above the counter: no committed id is used a second time
C37_PatchsetIdsIncrease ==
    /\ [](\A p \in db.patchsets : p.id <= db.seq_patchsets)
    /\ [][Allocating =>
            \A p \in tx'.patchsets :
               p.id \notin Ids(tx.patchsets) =>
                  /\ \A q \in tx.patchsets : p.id > q.id
                  /\ \A q \in db.patchsets : p.id > q.id
                  /\ \A r \in remote'.manifests : p.id >= r.id]_vars
    /\ [][/\ db'.seq_patchsets >= db.seq_patchsets
          /\ \A p \in db'.patchsets :
                p.id \notin Ids(db.patchsets) => p.id > db.seq_patchsets]_vars

\* a session commits a new patchset after a patchset compaction has taken
\* the lowest ids out of the table
C37_Witness ==
    /\ kind \in {"backup", "compact"}
    /\ pc = "commit"
    /\ db.patchsets # {}
    /\ 1 \notin Ids(db.patchsets)
    /\ \E p \in tx.patchsets : p.id > db.seq_patchsets

\* copy_file_range_full has returned
Copied == kind = "copy" /\ pc = "returned"

\* C38: when copy_file_range_full returns Ok, the target holds the len
\* source bytes of [from_off, from_off + len) at [to_off, to_off + len) and
\* its bytes before and behind the range are as they were (a hole before
\* the range reads as zero), whatever the calls of copy_file_range
\* returned; a call that returns Ok(0) ends the loop with an error
C38_CopiesExactly ==
    /\ [](Copied /\ ret.ok =>
            /\ \A i \in 1..call.len0 :
                  /\ call.from_off + i <= Len(call.from)
                  /\ call.to_off + i <= Len(call.to)
                  /\ call.to[call.to_off + i] = call.from[call.from_off + i]
            /\ \A i \in DOMAIN call.to :
                  (i <= call.to_off \/ i > call.to_off + call.len0) =>
                     call.to[i] = IF i <= Len(call.to0) THEN call.to0[i] ELSE 0
            /\ Len(call.to) = Max({Len(call.to0),
                                   IF call.len0 = 0 THEN 0 ELSE call.to_off + call.len0}))
    /\ [](kind = "copy" /\ call.result = "zero" => pc = "returned" /\ ~ret.ok)

\* the sum of the bytes in the window
RECURSIVE WindowSum(_, _)
WindowSum(win, i) == IF i > WINDOW_MASK THEN 0 ELSE win[i] + WindowSum(win, i + 1)

\* C39: in every round of RollingSum::split the counters neither underflow
\* nor overflow: s1 after s1 += new_val is at least the outgoing byte, s2
\* after s2 += s1 is at least WINDOW_SIZE * (outgoing byte + CHAR_OFFSET),
\* both stay far below the width of usize, and s1 is WINDOW_SIZE *
\* CHAR_OFFSET plus the sum of the bytes in the window
C39_SumsInRange ==
    kind = "roll" =>
       /\ call.ops.s1 >= call.ops.old_val
       /\ call.ops.s2 >= call.ops.scaled
       /\ call.ops.s1 < 2 ^ 20 /\ call.ops.s2 < 2 ^ 20
       /\ call.sum.s1 >= 0 /\ call.sum.s2 >= 0
       /\ call.sum.s1 = WINDOW_SIZE * CHAR_OFFSET + WindowSum(call.sum.win, 0)

\* the window has gone round: the highest byte leaves a window of highest
\* bytes and the lowest byte comes in
C39_Witness ==
    /\ kind = "roll"
    /\ call.fed > WINDOW_SIZE
    /\ call.ops.old_val = 255
    /\ call.ops.new_val = 0
    /\ call.ops.s1 = WINDOW_SIZE * CHAR_OFFSET + WINDOW_SIZE * 255

====
